---- MODULE Spec2Model ----
(***************************************************************************)
(* Model of mcli: the interactive session state machine of CliEngine       *)
(* (mcli.h), its tokenizer and dispatch table, and the telnet framing      *)
(* filter and send loop of the ESP32 WiFi adapter.                         *)
(*                                                                         *)
(* Characters are their byte values; a C string is the sequence of bytes   *)
(* before the first NUL of a char array.                                   *)
(***************************************************************************)
EXTENDS Integers, Sequences, FiniteSets, TLC

VARIABLES
    \* ---- tokenizer harness (parse_command_line as a pure function) ----
    tok_words,        \* the space-separated tokens the input line is built from
    tok_lead,         \* number of leading spaces of the input line
    tok_gap,          \* number of spaces between two tokens
    tok_trail,        \* number of trailing spaces
    tok_pc,           \* "input" before parse_command_line ran, "parsed" after
    tok_args,         \* the CommandArgs returned
    \* ---- CliEngine session state (mcli.h, "Input parsing" members) ----
    input_buffer_,    \* char input_buffer_[CMD_BUFFER_SIZE], as a 1-based array
    input_pos_,       \* size_t input_pos_
    last_line_char_,  \* uint8_t last_line_char_
    prompt_sent_,     \* bool prompt_sent_
    \* ---- observations of the last engine call ----
    op,               \* the operation that ran last
    chunk,            \* what io_.get_bytes returned to the last process_input
    out,              \* the calls the last operation made on io_ / handlers, in order
    trace,            \* accumulator snapshots of the last process_input, one per byte
    line,             \* the lines the last process_input completed (0 or 1)
    last_args,        \* the CommandArgs of the last operation
    handled,          \* what dispatch_command returned ("none" when not called)
    invoked,          \* the handler invocations of the last operation
    stale,            \* leading characters of the buffer typed before the last reset
    discarded,        \* whether a reset_session discarded a partial line (until a line completes)
    \* ---- chunking harness: a second engine fed the same bytes one per read ----
    ref,              \* the session state of the second engine
    eng_lines,        \* all lines completed by the engine, in order
    ref_lines,        \* all lines completed by the second engine, in order
    fed,              \* number of bytes delivered so far
    \* ---- ESP32WiFiIo ----
    connected_,       \* bool connected_
    socket_fd_,       \* int socket_fd_
    errno_,           \* the C library's errno
    wifi_op,          \* the adapter operation that ran last
    wifi_raw,         \* what recv stored in the caller's buffer
    wifi_buf,         \* the caller's buffer when get_bytes returned
    wifi_ret,         \* what get_bytes returned
    wifi_tx,          \* the bytes the last operation handed to send successfully
    wifi_sys,         \* how the last recv/send of the last operation ended ("none": no such call)
    \* ---- ESP32WiFiIo::put_bytes, one loop iteration per step ----
    snd_pc,           \* "idle", or "loop" while a process_input call is inside put_bytes
    snd_len,          \* len
    snd_offset,       \* offset
    snd_tick,         \* the FreeRTOS tick count, modulo 2 (advanced by vTaskDelay)
    \* ---- CliIoInterface default put_bytes/get_bytes over a byte-wise device ----
    io_rx,            \* the bytes the device has available, oldest first
    io_op,            \* the bulk operation that ran last
    io_data,          \* the data passed to the last put_bytes
    io_max,           \* the max_len passed to the last get_bytes
    io_log,           \* the put_byte, byte_available and get_byte calls it made, in order
    io_buf,           \* the bytes the last get_bytes stored in buffer
    io_ret,           \* what the last get_bytes returned
    \* ---- the sockets of the WiFi adapter ----
    sock_rx,          \* bytes the client sent that recv has not delivered yet
    open_clients,     \* how many client sockets are open
    listen_open       \* whether a listening socket is open

tokVars == <<tok_words, tok_lead, tok_gap, tok_trail, tok_pc, tok_args>>

engVars == <<input_buffer_, input_pos_, last_line_char_, prompt_sent_>>

obsVars == <<op, chunk, out, trace, line, last_args, handled, invoked, stale,
             discarded>>

shadowVars == <<ref, eng_lines, ref_lines, fed>>

wifiVars == <<connected_, socket_fd_, errno_, wifi_op, wifi_raw, wifi_buf, wifi_ret,
              wifi_tx, wifi_sys>>

sndVars == <<snd_pc, snd_len, snd_offset, snd_tick>>

ioVars == <<io_rx, io_op, io_data, io_max, io_log, io_buf, io_ret>>

sockVars == <<sock_rx, open_clients, listen_open>>

vars == <<tokVars, engVars, obsVars, shadowVars, wifiVars, sndVars, ioVars, sockVars>>

-----------------------------------------------------------------------------
(* Configuration constants of mcli.h *)

MAX_ARGS == 5
MAX_ARG_LENGTH == 12
CMD_BUFFER_SIZE == 128

\* the default of MAX_ARG_LENGTH in the README's table of configuration constants
README_MAX_ARG_LENGTH == 16

(* Byte values the code tests for *)
NUL == 0
BS == 8
DEL == 127
CR == 13
LF == 10
SP == 32

\* char read_buffer[32] in get_command_input
READ_BUFFER_SIZE == 32

(* Bounds of the tokenizer harness *)
MaxTokens == 6
MaxGap == 2

(* Bounds of the session model *)
MaxChunk == 1         \* bytes one get_bytes call delivers
MaxLine == 4          \* characters typed but not yet terminated or erased

(* Bound of the capacity harness *)
MaxSpare == 2         \* free slots of the line buffer from which on other keys than 'a' are typed

(* Bound of the typing harness *)
MaxTyped == 14        \* bytes of one read: the longest name and its terminator

(* Bound of the stream harness *)
MaxQueued == 4        \* bytes the client socket holds undelivered

(* Bound of the byte-wise device *)
MaxPending == 3       \* bytes the device holds, and bytes of one put_bytes or get_bytes

(* Bound of the chunking harness *)
MaxStream == 4        \* bytes delivered in all

(* Bound of the WiFi adapter model *)
MaxRecv == 4          \* bytes one recv call returns

-----------------------------------------------------------------------------
(* Generic helpers *)

Min(a, b) == IF a < b THEN a ELSE b

\* arr[i] of a 1-based char array, NUL past its end
At(arr, i) == IF i >= 1 /\ i <= Len(arr) THEN arr[i] ELSE NUL

\* number of bytes of arr from 1-based index i up to (excluding) the first NUL
StrLen(arr, i) ==
    (CHOOSE j \in i..(Len(arr) + 1) :
        At(arr, j) = NUL /\ \A k \in i..(j - 1) : At(arr, k) # NUL) - i

\* the C string held in a char array
CStr(arr) == SubSeq(arr, 1, StrLen(arr, 1))

Zeros(n) == [i \in 1..n |-> NUL]

RECURSIVE Spaces(_)
Spaces(n) == IF n = 0 THEN <<>> ELSE <<SP>> \o Spaces(n - 1)

-----------------------------------------------------------------------------
(* CommandArgs and parse_command_line *)

\* CommandArgs(): argc = 0, argv memset to 0
EmptyArgs == [argc |-> 0, argv |-> [i \in 1..MAX_ARGS |-> Zeros(MAX_ARG_LENGTH)]]

\* argv[i] (0-based i) read as a C string
Arg(args, i) == CStr(args.argv[i + 1])

RECURSIVE SkipSpaces(_, _)
\* while (*token == ' ') token++;
SkipSpaces(temp, tok) ==
    IF At(temp, tok) = SP THEN SkipSpaces(temp, tok + 1) ELSE tok

RECURSIVE CopyCount_Unbounded(_, _, _)
\* the copy loop without the test of char_count
CopyCount_Unbounded(temp, tok, char_count) ==
    IF At(temp, tok) # NUL /\ At(temp, tok) # SP
    THEN CopyCount_Unbounded(temp, tok + 1, char_count + 1)
    ELSE char_count

RECURSIVE CopyCount(_, _, _)
\* while (*token && *token != ' ' && char_count < MAX_ARG_LENGTH - 1) ...
\* returns the final char_count
CopyCount(temp, tok, char_count) ==
    IF At(temp, tok) # NUL /\ At(temp, tok) # SP /\ char_count < MAX_ARG_LENGTH - 1
    THEN CopyCount(temp, tok + 1, char_count + 1)
    ELSE char_count

\* the copy loop run without the test of char_count
TokenLength_Unbounded(temp, tok) == CopyCount_Unbounded(temp, tok, 0)

\* int char_count = 0; the copy loop; the number of characters copied
TokenLength(temp, tok) == CopyCount(temp, tok, 0)

\* the argv slot after the copy loop and *dest = '\0'
CopyToken(slot, temp, tok, n) ==
    [j \in 1..MAX_ARG_LENGTH |->
        IF j <= n THEN temp[tok + j - 1]
        ELSE IF j = n + 1 THEN NUL
        ELSE slot[j]]

\* the loop condition with MAX_ARGS for MAX_ARGS - 1
ParseContinues_UpToMaxArgs(temp, tok, args) ==
    At(temp, tok) # NUL /\ args.argc < MAX_ARGS

\* the loop condition of parse_command_line
ParseContinues(temp, tok, args) ==
    At(temp, tok) # NUL /\ args.argc < MAX_ARGS - 1

RECURSIVE ParseLoop(_, _, _)
ParseLoop(temp, tok, args) ==
    IF ~ParseContinues(temp, tok, args) THEN args
    ELSE LET t1 == SkipSpaces(temp, tok) IN
         IF At(temp, t1) = NUL THEN args
         ELSE LET n  == TokenLength(temp, t1)
                  a1 == [argc |-> args.argc + 1,
                         argv |-> [args.argv EXCEPT ![args.argc + 1] =
                                      CopyToken(@, temp, t1, n)]]
              IN ParseLoop(temp, SkipSpaces(temp, t1 + n), a1)

\* strncpy(temp_buffer, input, CMD_BUFFER_SIZE-1); temp_buffer[CMD_BUFFER_SIZE-1] = 0
TempBuffer(input) ==
    LET s == CStr(input) IN SubSeq(s, 1, Min(Len(s), CMD_BUFFER_SIZE - 1))

parse_command_line(input) == ParseLoop(TempBuffer(input), 1, EmptyArgs)

-----------------------------------------------------------------------------
(* String literals of mcli.h *)

\* "help"
HELP == <<104, 101, 108, 112>>
\* DEFAULT_PROMPT "\x1b[1mmcli> \x1b[0m"
DEFAULT_PROMPT == <<27, 91, 49, 109, 109, 99, 108, 105, 62, 32, 27, 91, 48, 109>>
\* "Command \""
MSG_COMMAND == <<67, 111, 109, 109, 97, 110, 100, 32, 34>>
\* "\" not found. Type 'help' for available commands."
MSG_NOT_FOUND ==
    <<34, 32, 110, 111, 116, 32, 102, 111, 117, 110, 100, 46, 32, 84, 121, 112,
      101, 32, 39, 104, 101, 108, 112, 39, 32, 102, 111, 114, 32, 97, 118, 97,
      105, 108, 97, 98, 108, 101, 32, 99, 111, 109, 109, 97, 110, 100, 115, 46>>
\* "Available commands:"
MSG_AVAILABLE ==
    <<65, 118, 97, 105, 108, 97, 98, 108, 101, 32, 99, 111, 109, 109, 97, 110,
      100, 115, 58>>
\* "Show available commands"
MSG_SHOW ==
    <<83, 104, 111, 119, 32, 97, 118, 97, 105, 108, 97, 98, 108, 101, 32, 99,
      111, 109, 109, 97, 110, 100, 115>>
\* "  (No additional commands registered)"
MSG_NONE ==
    <<32, 32, 40, 78, 111, 32, 97, 100, 100, 105, 116, 105, 111, 110, 97, 108,
      32, 99, 111, 109, 109, 97, 110, 100, 115, 32, 114, 101, 103, 105, 115,
      116, 101, 114, 101, 100, 41>>

-----------------------------------------------------------------------------
(* The command table the engine is constructed with: the application's     *)
(* CommandDefinition array.  Entry 2 is a user command named "help", entry *)
(* 3 repeats the name of entry 1 and has a help text of 54 characters,     *)
(* entry 4 has a name longer than MAX_ARG_LENGTH-1; "aa" and "A" are not   *)
(* registered.                                                             *)

\* a help text of 54 characters
LONG_HELP == [i \in 1..54 |-> 67]

\* a command name of 13 characters, "status-report"
LONG_NAME == <<115, 116, 97, 116, 117, 115, 45, 114, 101, 112, 111, 114, 116>>

commands_ ==
    << [name |-> <<97>>, help |-> <<65>>],
       [name |-> HELP,   help |-> <<66>>],
       [name |-> <<97>>, help |-> LONG_HELP],
       [name |-> LONG_NAME, help |-> <<68>>] >>

command_count_ == Len(commands_)

-----------------------------------------------------------------------------
(* Calls on io_ and on handlers, recorded in call order *)

Ev(o, str) == [op |-> o, s |-> str]

\* size of the stack buffer of CliIoInterface::printf
PRINTF_BUFFER_SIZE == 64

\* CliIoInterface::printf: vsnprintf into buffer[64]; what reaches put_bytes
PrintfBytes(formatted) ==
    IF Len(formatted) >= PRINTF_BUFFER_SIZE
    THEN SubSeq(formatted, 1, PRINTF_BUFFER_SIZE - 1)
    ELSE formatted

\* fmt "  %-<width>s -- %s\r\n" applied to (name, help)
FormatHelpLine(width, name, help) ==
    <<SP, SP>> \o name \o Spaces(IF Len(name) < width THEN width - Len(name) ELSE 0)
        \o <<SP, 45, 45, SP>> \o help \o <<CR, LF>>

RECURSIVE MaxNameLen(_, _)
\* the padding loop of print_help, from entry i (1-based) on
MaxNameLen(i, max_name_len) ==
    IF i > command_count_ THEN max_name_len
    ELSE MaxNameLen(i + 1, IF Len(commands_[i].name) > max_name_len
                           THEN Len(commands_[i].name) ELSE max_name_len)

\* the calls print_help makes on io_
print_help ==
    LET w == MaxNameLen(1, Len(HELP)) IN
    << Ev("println", <<>>), Ev("println", MSG_AVAILABLE),
       Ev("printf", PrintfBytes(FormatHelpLine(w, HELP, MSG_SHOW))) >>
    \o (IF command_count_ > 0
        THEN [i \in 1..command_count_ |->
                Ev("printf", PrintfBytes(FormatHelpLine(w, commands_[i].name,
                                                        commands_[i].help)))]
        ELSE << Ev("println", MSG_NONE) >>)
    \o << Ev("println", <<>>) >>

\* tolower
Lower(c) == IF c >= 65 /\ c <= 90 THEN c + 32 ELSE c

\* the comparison done as strcasecmp
NameMatches_IgnoreCase(argv0, name) ==
    /\ Len(argv0) = Len(name)
    /\ \A j \in 1..Len(name) : Lower(argv0[j]) = Lower(name[j])

\* strcmp(args.argv[0], commands_[i].name) == 0
NameMatches(argv0, name) == argv0 = name

RECURSIVE FindCommand(_, _)
\* for (i = 0; i < command_count_; i++) if (strcmp(argv[0], name) == 0) ...
\* the 1-based index of the entry executed, 0 when the loop ends without one
FindCommand(name, i) ==
    IF i > command_count_ THEN 0
    ELSE IF NameMatches(name, commands_[i].name) THEN i
    ELSE FindCommand(name, i + 1)

\* IsBuiltinHelp letting a user entry of the same name win
IsBuiltinHelp_UserFirst(a) == Arg(a, 0) = HELP /\ FindCommand(Arg(a, 0), 1) = 0

\* strcmp(args.argv[0], "help") == 0
IsBuiltinHelp(a) == Arg(a, 0) = HELP

\* dispatch_command: whether handled, the io_ calls and the handler invocations
dispatch_command(a) ==
    IF a.argc = 0 THEN [handled |-> FALSE, out |-> <<>>, invoked |-> <<>>]
    ELSE IF IsBuiltinHelp(a)
         THEN [handled |-> TRUE, out |-> print_help, invoked |-> <<>>]
    ELSE IF command_count_ = 0
         THEN [handled |-> FALSE, out |-> <<>>, invoked |-> <<>>]
    ELSE LET i == FindCommand(Arg(a, 0), 1) IN
         IF i = 0 THEN [handled |-> FALSE, out |-> <<>>, invoked |-> <<>>]
         ELSE [handled |-> TRUE,
               out |-> << Ev("execute", <<i>>) >>,
               invoked |-> << [idx |-> i, args |-> a] >>]

-----------------------------------------------------------------------------
(* get_command_input: the accumulator, one byte at a time *)

\* the characters of the line being typed
LineOf(buf, pos) == SubSeq(buf, 1, Min(pos, Len(buf)))

\* wr: the indexes of input_buffer_ (from 0) the byte's handling wrote with
\* input_buffer_[...] = ...; the memsets cover sizeof(input_buffer_)
Snap(g, c) == [c |-> c, pos |-> g.pos, text |-> LineOf(g.buf, g.pos),
               last |-> g.last, prompt |-> g.prompt, nout |-> Len(g.out),
               done |-> g.done, wr |-> g.wr]

\* HandleBackspace emitting the erase sequence without testing input_pos_ > 0
HandleBackspace_EraseAlways(g) ==
    IF g.pos > 0
    THEN [g EXCEPT !.pos = g.pos - 1,
                   !.buf = [g.buf EXCEPT ![g.pos] = NUL],
                   !.wr = {g.pos - 1},
                   !.out = Append(g.out, Ev("send_backspace", <<>>)),
                   !.stale = Min(g.stale, g.pos - 1)]
    ELSE [g EXCEPT !.out = Append(g.out, Ev("send_backspace", <<>>))]

\* in_char == 8 || in_char == 127
HandleBackspace(g) ==
    IF g.pos > 0
    THEN [g EXCEPT !.pos = g.pos - 1,
                   !.buf = [g.buf EXCEPT ![g.pos] = NUL],
                   !.wr = {g.pos - 1},
                   !.out = Append(g.out, Ev("send_backspace", <<>>)),
                   !.stale = Min(g.stale, g.pos - 1)]
    ELSE g

\* SuppressedLF without the CRLF pairing: every LF terminates
SuppressedLF_Never(g, c) == FALSE

\* (in_char == '\n') && (last_line_char_ == '\r')
SuppressedLF(g, c) == c = LF /\ g.last = CR

\* HandleTerminator without prompt_sent_ = false on an empty buffer
HandleTerminator_KeepPrompt(g, c) ==
    IF SuppressedLF(g, c) THEN [g EXCEPT !.last = c]
    ELSE LET g1 == [g EXCEPT !.last = c,
                             !.out = Append(g.out, Ev("println", <<>>))]
         IN IF g1.pos > 0
            THEN LET b == [g1.buf EXCEPT ![g1.pos + 1] = NUL] IN
                 [g1 EXCEPT !.result = parse_command_line(b),
                            !.wr = {g1.pos},
                            !.line = Append(g1.line,
                                            [text |-> CStr(b), stale |-> g1.stale]),
                            !.buf = Zeros(CMD_BUFFER_SIZE),
                            !.pos = 0,
                            !.stale = 0,
                            !.done = TRUE]
            ELSE g1

\* in_char == '\r' || in_char == '\n'
HandleTerminator(g, c) ==
    IF SuppressedLF(g, c) THEN [g EXCEPT !.last = c]
    ELSE LET g1 == [g EXCEPT !.last = c,
                             !.out = Append(g.out, Ev("println", <<>>))]
         IN IF g1.pos > 0
            THEN LET b == [g1.buf EXCEPT ![g1.pos + 1] = NUL] IN
                 [g1 EXCEPT !.result = parse_command_line(b),
                            !.wr = {g1.pos},
                            !.line = Append(g1.line,
                                            [text |-> CStr(b), stale |-> g1.stale]),
                            !.buf = Zeros(CMD_BUFFER_SIZE),
                            !.pos = 0,
                            !.stale = 0,
                            !.done = TRUE]
            ELSE [g1 EXCEPT !.prompt = FALSE]

\* HandleRegular with the test input_pos_ < CMD_BUFFER_SIZE
HandleRegular_OffByOne(g, c) ==
    IF g.pos < CMD_BUFFER_SIZE
    THEN [g EXCEPT !.out = Append(g.out, Ev("put_byte", <<c>>)),
                   !.buf = [g.buf EXCEPT ![g.pos + 1] = c],
                   !.wr = {g.pos},
                   !.pos = g.pos + 1]
    ELSE g

\* HandleRegular echoing the byte before the capacity test
HandleRegular_EchoDropped(g, c) ==
    IF g.pos < CMD_BUFFER_SIZE - 1
    THEN [g EXCEPT !.out = Append(g.out, Ev("put_byte", <<c>>)),
                   !.buf = [g.buf EXCEPT ![g.pos + 1] = c],
                   !.wr = {g.pos},
                   !.pos = g.pos + 1]
    ELSE [g EXCEPT !.out = Append(g.out, Ev("put_byte", <<c>>))]

\* HandleRegular without the capacity test
HandleRegular_Unchecked(g, c) ==
    [g EXCEPT !.out = Append(g.out, Ev("put_byte", <<c>>)),
              !.buf = [g.buf EXCEPT ![g.pos + 1] = c],
              !.wr = {g.pos},
              !.pos = g.pos + 1]

\* regular characters
HandleRegular(g, c) ==
    IF g.pos < CMD_BUFFER_SIZE - 1
    THEN [g EXCEPT !.out = Append(g.out, Ev("put_byte", <<c>>)),
                   !.buf = [g.buf EXCEPT ![g.pos + 1] = c],
                   !.wr = {g.pos},
                   !.pos = g.pos + 1]
    ELSE g

\* one iteration of the for loop
FeedByte(g, c) ==
    LET g0 == [g EXCEPT !.wr = {}]
        g1 == IF c = BS \/ c = DEL THEN HandleBackspace(g0)
              ELSE IF c = CR \/ c = LF THEN HandleTerminator(g0, c)
              ELSE HandleRegular(g0, c)
    IN [g1 EXCEPT !.trace = Append(g1.trace, Snap(g1, c))]

RECURSIVE FeedLoop(_, _, _)
\* for (i = 0; i < buffer_len; i++), left by the return on a completed line
FeedLoop(g, read_buffer, i) ==
    IF i > Len(read_buffer) \/ g.done THEN g
    ELSE FeedLoop(FeedByte(g, read_buffer[i]), read_buffer, i + 1)

\* get_command_input forgetting the last terminator when nothing was read
get_command_input_IdleForgets(g, read_buffer) ==
    IF Len(read_buffer) = 0 THEN [g EXCEPT !.last = 0]
    ELSE FeedLoop(g, read_buffer, 1)

\* get_command_input on the bytes io_.get_bytes delivered
get_command_input(g, read_buffer) ==
    IF Len(read_buffer) = 0 THEN g
    ELSE FeedLoop(g, read_buffer, 1)

\* the engine as a record, for the operators above
Engine(buf, pos, last, prompt, st) ==
    [buf |-> buf, pos |-> pos, last |-> last, prompt |-> prompt, stale |-> st,
     out |-> <<>>, trace |-> <<>>, line |-> <<>>, result |-> EmptyArgs,
     done |-> FALSE, handled |-> "none", invoked |-> <<>>, wr |-> {}]

\* the driver's handling of the CommandArgs returned by get_command_input
DispatchResult(g) ==
    IF g.result.argc > 0
    THEN LET d == dispatch_command(g.result) IN
         [g EXCEPT !.handled = IF d.handled THEN "true" ELSE "false",
                   !.invoked = d.invoked,
                   !.out = g.out \o d.out \o
                           (IF d.handled THEN <<>>
                            ELSE << Ev("print", MSG_COMMAND),
                                    Ev("print", Arg(g.result, 0)),
                                    Ev("println", MSG_NOT_FOUND) >>),
                   !.prompt = FALSE]
    ELSE g

\* process_input sending the prompt without testing prompt_sent_
process_input_AlwaysPrompt(e, read_buffer) ==
    LET g0 == [e EXCEPT !.out = << Ev("send_prompt", DEFAULT_PROMPT) >>,
                        !.prompt = TRUE]
        g1 == [g0 EXCEPT !.trace = << Snap(g0, -1) >>]
    IN DispatchResult(get_command_input(g1, read_buffer))

\* process_input, given what io_.get_bytes returns
process_input(e, read_buffer) ==
    LET g0 == IF ~e.prompt
              THEN [e EXCEPT !.out = << Ev("send_prompt", DEFAULT_PROMPT) >>,
                             !.prompt = TRUE]
              ELSE e
        g1 == [g0 EXCEPT !.trace = << Snap(g0, -1) >>]
    IN DispatchResult(get_command_input(g1, read_buffer))

\* execute_command(command_line)
execute_command(command_line) ==
    LET a == parse_command_line(command_line) IN
    [args |-> a, d |-> dispatch_command(a)]

\* reset_session without input_pos_ = 0
reset_session_KeepPos(e) ==
    [e EXCEPT !.buf = Zeros(CMD_BUFFER_SIZE), !.last = 0, !.prompt = FALSE]

\* reset_session
reset_session(e) ==
    [e EXCEPT !.buf = Zeros(CMD_BUFFER_SIZE), !.pos = 0, !.last = 0,
              !.prompt = FALSE]

-----------------------------------------------------------------------------
(* The session: the application's loop calls process_input, which reads   *)
(* what the transport has, and may call execute_command and reset_session. *)

Keys == {97, BS, CR, LF}

RECURSIVE SeqsUpTo(_, _)
SeqsUpTo(S, n) ==
    IF n = 0 THEN { <<>> }
    ELSE LET shorter == SeqsUpTo(S, n - 1) IN
         shorter \cup { Append(q, x) : q \in shorter, x \in S }

\* what one io_.get_bytes call may deliver: nothing, some keys, or one of a
\* few longer pieces of typing
Chunks ==
    SeqsUpTo(Keys, MaxChunk)
        \cup { <<DEL>>, <<BS, DEL>>, <<LF, LF>>, <<CR, LF>>, <<97, CR>>,
               <<97, LF>>, <<97, CR, LF>>,
               HELP, HELP \o <<CR>>, <<97, 97, CR, 97>>, <<SP, CR>>,
               <<97, SP, 97, LF>> }

IsRegular(c) == c \notin {BS, DEL, CR, LF}

RECURSIVE CountRegular(_)
CountRegular(q) ==
    IF Len(q) = 0 THEN 0
    ELSE (IF IsRegular(Head(q)) THEN 1 ELSE 0) + CountRegular(Tail(q))

\* command lines the application passes to execute_command
ExecLines ==
    { <<>>, <<SP>>, <<65>>, <<97, 97>>, <<SP, 97, SP, 97>>, HELP \o <<SP, 97>>,
      LONG_NAME }

\* input_buffer_ has no initializer: zero for a static engine, arbitrary otherwise
InitialBuffers == { Zeros(CMD_BUFFER_SIZE), [i \in 1..CMD_BUFFER_SIZE |-> 85] }

TokIdle ==
    /\ tok_words = <<>>
    /\ tok_lead = 0
    /\ tok_gap = 1
    /\ tok_trail = 0
    /\ tok_pc = "input"
    /\ tok_args = EmptyArgs

EngIdle ==
    /\ input_buffer_ = Zeros(CMD_BUFFER_SIZE)
    /\ input_pos_ = 0
    /\ last_line_char_ = 0
    /\ prompt_sent_ = FALSE

ObsInit ==
    /\ op = "init"
    /\ chunk = <<>>
    /\ out = <<>>
    /\ trace = <<>>
    /\ line = <<>>
    /\ last_args = EmptyArgs
    /\ handled = "none"
    /\ invoked = <<>>
    /\ stale = 0
    /\ discarded = FALSE

\* no second engine
ShadowIdle ==
    /\ ref = [buf |-> <<>>, pos |-> 0, last |-> 0, prompt |-> FALSE]
    /\ eng_lines = <<>>
    /\ ref_lines = <<>>
    /\ fed = 0

\* ESP32WiFiIo(): socket_fd_(-1), connected_(false)
WifiIdle ==
    /\ connected_ = FALSE
    /\ socket_fd_ = -1
    /\ errno_ = "none"
    /\ wifi_op = "init"
    /\ wifi_raw = <<>>
    /\ wifi_buf = <<>>
    /\ wifi_ret = 0
    /\ wifi_tx = <<>>
    /\ wifi_sys = "none"

SndIdle ==
    /\ snd_pc = "idle"
    /\ snd_len = 0
    /\ snd_offset = 0
    /\ snd_tick = 0

\* no socket was created yet
SockIdle ==
    /\ sock_rx = <<>>
    /\ open_clients = 0
    /\ listen_open = FALSE

IoIdle ==
    /\ io_rx = <<>>
    /\ io_op = "init"
    /\ io_data = <<>>
    /\ io_max = 0
    /\ io_log = <<>>
    /\ io_buf = <<>>
    /\ io_ret = 0

Init ==
    /\ ShadowIdle
    /\ WifiIdle
    /\ SndIdle
    /\ IoIdle
    /\ SockIdle
    /\ input_buffer_ \in InitialBuffers
    /\ input_pos_ = 0
    /\ last_line_char_ = 0
    /\ prompt_sent_ = FALSE
    /\ ObsInit
    /\ TokIdle

\* the effect of process_input on the engine and the observations, when
\* io_.get_bytes(read_buffer, sizeof(read_buffer)) delivers read_buffer
EngineCall(read_buffer) ==
    /\ Len(read_buffer) <= READ_BUFFER_SIZE
    /\ \E r \in {process_input(Engine(input_buffer_, input_pos_, last_line_char_,
                                     prompt_sent_, stale), read_buffer)} :
          /\ chunk' = read_buffer
          /\ input_buffer_' = r.buf
          /\ input_pos_' = r.pos
          /\ last_line_char_' = r.last
          /\ prompt_sent_' = r.prompt
          /\ stale' = r.stale
          /\ out' = r.out
          /\ trace' = r.trace
          /\ line' = r.line
          /\ last_args' = r.result
          /\ handled' = r.handled
          /\ invoked' = r.invoked
    /\ op' = "process_input"
    /\ discarded' = IF line # <<>> THEN FALSE ELSE discarded

ProcessInput(read_buffer) ==
    /\ input_pos_ + CountRegular(read_buffer) <= MaxLine
    /\ EngineCall(read_buffer)
    /\ UNCHANGED <<tokVars, shadowVars, ioVars, wifiVars, sndVars, sockVars>>

\* execute_command tokenizing in the line buffer and clearing it afterwards
ExecuteCommand_ViaLineBuffer(command_line) ==
    /\ LET r == execute_command(command_line) IN
          /\ last_args' = r.args
          /\ handled' = IF r.d.handled THEN "true" ELSE "false"
          /\ out' = r.d.out
          /\ invoked' = r.d.invoked
    /\ op' = "execute_command"
    /\ chunk' = command_line
    /\ trace' = <<>>
    /\ line' = <<>>
    /\ input_buffer_' = Zeros(CMD_BUFFER_SIZE)
    /\ input_pos_' = 0
    /\ UNCHANGED <<last_line_char_, prompt_sent_>>
    /\ UNCHANGED <<stale, discarded, tokVars, shadowVars, ioVars, wifiVars, sndVars, sockVars>>

\* a call of execute_command(command_line) by the application
ExecuteCommand(command_line) ==
    /\ LET r == execute_command(command_line) IN
          /\ last_args' = r.args
          /\ handled' = IF r.d.handled THEN "true" ELSE "false"
          /\ out' = r.d.out
          /\ invoked' = r.d.invoked
    /\ op' = "execute_command"
    /\ chunk' = command_line
    /\ trace' = <<>>
    /\ line' = <<>>
    /\ UNCHANGED <<engVars, stale, discarded, tokVars, shadowVars, ioVars, wifiVars, sndVars, sockVars>>

\* the effect of reset_session on the engine and the observations
ResetCall ==
    /\ LET r == reset_session(Engine(input_buffer_, input_pos_, last_line_char_,
                                     prompt_sent_, stale))
       IN /\ input_buffer_' = r.buf
          /\ input_pos_' = r.pos
          /\ last_line_char_' = r.last
          /\ prompt_sent_' = r.prompt
          /\ stale' = r.pos
    /\ discarded' = (input_pos_ > 0)
    /\ op' = "reset_session"
    /\ chunk' = <<>>
    /\ out' = <<>>
    /\ trace' = <<>>
    /\ line' = <<>>
    /\ last_args' = EmptyArgs
    /\ handled' = "none"
    /\ invoked' = <<>>

ResetSession ==
    /\ ResetCall
    /\ UNCHANGED <<tokVars, shadowVars, ioVars, wifiVars, sndVars, sockVars>>

Next ==
    \/ \E read_buffer \in Chunks : ProcessInput(read_buffer)
    \/ \E l \in ExecLines : ExecuteCommand(l)
    \/ ResetSession

Spec == Init /\ [][Next]_vars

-----------------------------------------------------------------------------
(* Capacity harness: the line buffer is filled to CMD_BUFFER_SIZE-1 by full *)
(* reads of 'a'; near capacity other keys are typed.                        *)

\* reads that fill the buffer: 32 and 31 times 'a'
CapFill ==
    { [i \in 1..READ_BUFFER_SIZE |-> 97], [i \in 1..(READ_BUFFER_SIZE - 1) |-> 97] }

\* reads tried when at most MaxSpare slots are free
CapEdge ==
    { <<98>>, <<98, 98>>, <<BS>>, <<CR>>, <<98, CR>>, <<98, 98, CR>>, <<98, 98, LF>> }

InitCap ==
    /\ TokIdle
    /\ EngIdle
    /\ ObsInit
    /\ ShadowIdle
    /\ WifiIdle
    /\ SndIdle
    /\ IoIdle
    /\ SockIdle

\* reads tried when the buffer is empty
CapStart == { <<BS>>, <<CR>>, <<97, CR>> }

\* a process_input call that reads read_buffer
CapInput(read_buffer) ==
    /\ \/ read_buffer \in CapFill
       \/ read_buffer \in CapEdge /\ input_pos_ >= CMD_BUFFER_SIZE - 1 - MaxSpare
       \/ read_buffer \in CapStart /\ input_pos_ = 0
    /\ EngineCall(read_buffer)
    /\ UNCHANGED <<tokVars, shadowVars, ioVars, wifiVars, sndVars, sockVars>>

NextCap ==
    \/ \E read_buffer \in CapFill \cup CapEdge \cup CapStart : CapInput(read_buffer)
    \/ \E l \in ExecLines : ExecuteCommand(l)
    \/ ResetSession

SpecCap == InitCap /\ [][NextCap]_vars

-----------------------------------------------------------------------------
(* Typing harness: the names of the command table are typed at the prompt,  *)
(* each in reads of any lengths, and ended by CR or LF.                     *)

\* what is typed for entry i: its name and the terminator t
Typed(i, t) == Append(commands_[i].name, t)

InitType ==
    /\ TokIdle
    /\ EngIdle
    /\ ObsInit
    /\ ShadowIdle
    /\ WifiIdle
    /\ SndIdle
    /\ IoIdle
    /\ SockIdle

\* a process_input call that reads the next k bytes of Typed(i, t)
TypeInput(i, t, k) ==
    /\ input_pos_ < Len(Typed(i, t))
    /\ LineOf(input_buffer_, input_pos_) = SubSeq(Typed(i, t), 1, input_pos_)
    /\ input_pos_ + k <= Len(Typed(i, t))
    /\ EngineCall(SubSeq(Typed(i, t), input_pos_ + 1, input_pos_ + k))
    /\ UNCHANGED <<tokVars, shadowVars, ioVars, wifiVars, sndVars, sockVars>>

NextType ==
    \E i \in 1..command_count_, t \in {CR, LF}, k \in 1..MaxTyped :
        TypeInput(i, t, k)

SpecType == InitType /\ [][NextType]_vars

-----------------------------------------------------------------------------
(* Chunking harness: the engine reads the stream in arbitrary chunks, a       *)
(* second engine reads the same bytes one per process_input call.             *)

RECURSIVE LineTexts(_)
LineTexts(ls) == IF Len(ls) = 0 THEN <<>> ELSE <<Head(ls).text>> \o LineTexts(Tail(ls))

RECURSIVE FeedSingly(_, _, _)
\* process_input called once per byte of bytes, from byte i on; e carries the
\* session state and the lines completed so far
FeedSingly(e, bytes, i) ==
    IF i > Len(bytes) THEN e
    ELSE LET r == process_input(Engine(e.buf, e.pos, e.last, e.prompt, 0),
                                << bytes[i] >>)
         IN FeedSingly([buf |-> r.buf, pos |-> r.pos, last |-> r.last,
                        prompt |-> r.prompt,
                        lines |-> e.lines \o LineTexts(r.line)], bytes, i + 1)

StreamChunks == SeqsUpTo(Keys, MaxStream) \ { <<>> }

\* two engines in the same initial state
InitChunk ==
    /\ EngIdle
    /\ ObsInit
    /\ TokIdle
    /\ WifiIdle
    /\ SndIdle
    /\ IoIdle
    /\ SockIdle
    /\ ref = [buf |-> input_buffer_, pos |-> input_pos_, last |-> last_line_char_,
              prompt |-> prompt_sent_]
    /\ eng_lines = <<>>
    /\ ref_lines = <<>>
    /\ fed = 0

ChunkedInput(read_buffer) ==
    /\ fed + Len(read_buffer) <= MaxStream
    /\ EngineCall(read_buffer)
    /\ eng_lines' = eng_lines \o LineTexts(line')
    /\ \E r \in {FeedSingly([buf |-> ref.buf, pos |-> ref.pos, last |-> ref.last,
                            prompt |-> ref.prompt, lines |-> ref_lines],
                           read_buffer, 1)} :
          /\ ref' = [buf |-> r.buf, pos |-> r.pos, last |-> r.last,
                     prompt |-> r.prompt]
          /\ ref_lines' = r.lines
    /\ fed' = fed + Len(read_buffer)
    /\ UNCHANGED <<tokVars, ioVars, wifiVars, sndVars, sockVars>>

NextChunk == \E read_buffer \in StreamChunks : ChunkedInput(read_buffer)

SpecChunk == InitChunk /\ [][NextChunk]_vars

-----------------------------------------------------------------------------
(* ESP32WiFiIo (mcli_esp32_wifi_sta.h) *)

\* the telnet escape byte tested by get_bytes
IAC == 255

\* const size_t CHUNK_SIZE = 32 in put_bytes
CHUNK_SIZE == 32

\* the descriptor accept returns for the client
CLIENT_FD == 3

RECURSIVE FilterLoop(_, _, _, _)
\* the in-place filter loop of get_bytes; read_pos and write_pos as in the
\* code (0-based), buffer 1-based
FilterLoop(buffer, read_pos, write_pos, result) ==
    IF ~(read_pos < result) THEN [buf |-> buffer, n |-> write_pos]
    ELSE LET c == buffer[read_pos + 1] IN
         IF c = IAC
         THEN IF read_pos + 2 < result
              THEN FilterLoop(buffer, read_pos + 3, write_pos, result)
              ELSE [buf |-> buffer, n |-> write_pos]
         ELSE FilterLoop([buffer EXCEPT ![write_pos + 1] = c],
                         read_pos + 1, write_pos + 1, result)

RECURSIVE FilterLoop_SkipTwo(_, _, _, _)
\* the filter loop taking a control sequence to be 2 bytes long
FilterLoop_SkipTwo(buffer, read_pos, write_pos, result) ==
    IF ~(read_pos < result) THEN [buf |-> buffer, n |-> write_pos]
    ELSE LET c == buffer[read_pos + 1] IN
         IF c = IAC
         THEN IF read_pos + 1 < result
              THEN FilterLoop_SkipTwo(buffer, read_pos + 2, write_pos, result)
              ELSE [buf |-> buffer, n |-> write_pos]
         ELSE FilterLoop_SkipTwo([buffer EXCEPT ![write_pos + 1] = c],
                                 read_pos + 1, write_pos + 1, result)

RECURSIVE FilterLoop_KeepPartial(_, _, _, _)
\* the filter loop keeping the bytes of a truncated control sequence as data
FilterLoop_KeepPartial(buffer, read_pos, write_pos, result) ==
    IF ~(read_pos < result) THEN [buf |-> buffer, n |-> write_pos]
    ELSE LET c == buffer[read_pos + 1] IN
         IF c = IAC /\ read_pos + 2 < result
         THEN FilterLoop_KeepPartial(buffer, read_pos + 3, write_pos, result)
         ELSE FilterLoop_KeepPartial([buffer EXCEPT ![write_pos + 1] = c],
                                     read_pos + 1, write_pos + 1, result)

\* FilterTelnet with the loop that keeps a truncated sequence
FilterTelnet_KeepPartial(buffer, result) == FilterLoop_KeepPartial(buffer, 0, 0, result)

\* FilterTelnet with that loop
FilterTelnet_SkipTwo(buffer, result) == FilterLoop_SkipTwo(buffer, 0, 0, result)

\* get_bytes after a recv that returned result > 0 bytes in buffer
FilterTelnet(buffer, result) == FilterLoop(buffer, 0, 0, result)

\* what recv may do: deliver data, report an orderly close (0, errno left as
\* it was), or fail with would-block or with another error
WireBytes == {65, 66, IAC}

\* [0x41, 0xFF, 0xFB, 0x01, 0x42]
ExampleFrame == <<65, 255, 251, 1, 66>>

RecvData == (SeqsUpTo(WireBytes, MaxRecv) \ { <<>> }) \cup {ExampleFrame}

RecvResults ==
    { [kind |-> "data", bytes |-> d] : d \in RecvData }
        \cup { [kind |-> k, bytes |-> <<>>] : k \in {"closed", "wouldblock", "error"} }


\* errno after a socket call made with errno = e: set by a failing call, left
\* alone otherwise
ErrnoFrom(e, res) ==
    IF res.kind = "wouldblock" THEN "EAGAIN"
    ELSE IF res.kind = "error" THEN "EOTHER"
    ELSE e

ErrnoAfter(res) == ErrnoFrom(errno_, res)

\* the adapter as a record, for the operators below; tx, sys, raw, buf and ret
\* describe the call being made
Adapter ==
    [connected |-> connected_, fd |-> socket_fd_, errno |-> errno_, tx |-> <<>>,
     sys |-> "none", raw |-> <<>>, buf |-> <<>>, ret |-> 0,
     clients |-> open_clients, listen |-> listen_open]

\* get_bytes disconnecting on every result <= 0, errno not consulted
get_bytes_StrictErrno(a, max_len, res) ==
    IF ~a.connected \/ a.fd < 0 THEN [a EXCEPT !.ret = 0]
    ELSE LET a1 == [a EXCEPT !.errno = ErrnoFrom(a.errno, res),
                             !.raw = res.bytes,
                             !.sys = res.kind]
         IN IF res.kind # "data"
            THEN [a1 EXCEPT !.connected = FALSE, !.ret = 0, !.buf = <<>>]
            ELSE LET f == FilterTelnet(res.bytes, Len(res.bytes)) IN
                 [a1 EXCEPT !.ret = f.n, !.buf = f.buf]

\* get_bytes(buffer, max_len), recv behaving as res
get_bytes(a, max_len, res) ==
    IF ~a.connected \/ a.fd < 0 THEN [a EXCEPT !.ret = 0]
    ELSE LET a1 == [a EXCEPT !.errno = ErrnoFrom(a.errno, res),
                             !.raw = res.bytes,
                             !.sys = res.kind]
         IN IF res.kind # "data"
            THEN \* result <= 0
                 [a1 EXCEPT !.connected = IF a1.errno # "EAGAIN" THEN FALSE
                                          ELSE a.connected,
                            !.ret = 0,
                            !.buf = <<>>]
            ELSE LET f == FilterTelnet(res.bytes, Len(res.bytes)) IN
                 [a1 EXCEPT !.ret = f.n, !.buf = f.buf]

\* byte_available(), recv(.., 1, MSG_PEEK) behaving as res; ret 1 is true
byte_available(a, res) ==
    IF ~a.connected \/ a.fd < 0 THEN [a EXCEPT !.ret = 0]
    ELSE LET a1 == [a EXCEPT !.errno = ErrnoFrom(a.errno, res), !.sys = res.kind]
         IN IF res.kind # "data"
            THEN [a1 EXCEPT !.connected = IF res.kind = "closed" \/ a1.errno # "EAGAIN"
                                          THEN FALSE ELSE a.connected,
                            !.ret = 0]
            ELSE [a1 EXCEPT !.ret = 1]

\* get_byte(): the byte, or 0
get_byte(a, res) ==
    IF ~a.connected \/ a.fd < 0 THEN [a EXCEPT !.ret = 0]
    ELSE LET g == get_bytes(a, 1, res) IN
         [g EXCEPT !.ret = IF g.ret = 1 THEN g.buf[1] ELSE 0]

\* put_bytes without the test of connected_ and socket_fd_
put_bytes_Unguarded(a, data, o) ==
    IF ~(0 < Len(data)) THEN a
    ELSE LET e == IF o.retried THEN "EAGAIN" ELSE a.errno
             n == Min(o.n, Len(data) - 1)
         IN IF o.end = "error"
            THEN [a EXCEPT !.tx = a.tx \o SubSeq(data, 1, n), !.errno = "EOTHER",
                           !.connected = FALSE, !.sys = "error"]
            ELSE IF o.end = "zero"
            THEN [a EXCEPT !.tx = a.tx \o SubSeq(data, 1, n), !.errno = e,
                           !.sys = "zero"]
            ELSE [a EXCEPT !.tx = a.tx \o data, !.errno = e, !.sys = "sent"]

\* put_bytes(data, len) when its loop ends: o.end says how ("sent": all of
\* data was accepted; "zero": a send returned 0; "error": a send failed with
\* an error other than would-block), o.n how many bytes send had accepted
\* before, o.retried whether a send failed with would-block on the way
put_bytes(a, data, o) ==
    IF ~a.connected \/ a.fd < 0 THEN a
    ELSE IF ~(0 < Len(data)) THEN a
    ELSE LET e == IF o.retried THEN "EAGAIN" ELSE a.errno
             n == Min(o.n, Len(data) - 1)
         IN IF o.end = "error"
            THEN [a EXCEPT !.tx = a.tx \o SubSeq(data, 1, n), !.errno = "EOTHER",
                           !.connected = FALSE, !.sys = "error"]
            ELSE IF o.end = "zero"
            THEN [a EXCEPT !.tx = a.tx \o SubSeq(data, 1, n), !.errno = e,
                           !.sys = "zero"]
            ELSE [a EXCEPT !.tx = a.tx \o data, !.errno = e, !.sys = "sent"]

\* put_byte(c): put_bytes(&c, 1)
put_byte(a, c, o) == put_bytes(a, <<c>>, o)

\* the adapter after an operation named name
SetAdapter(a, name) ==
    /\ connected_' = a.connected
    /\ socket_fd_' = a.fd
    /\ errno_' = a.errno
    /\ wifi_op' = name
    /\ wifi_raw' = a.raw
    /\ wifi_buf' = a.buf
    /\ wifi_ret' = a.ret
    /\ wifi_tx' = a.tx
    /\ wifi_sys' = a.sys

\* a get_bytes(buffer, max_len) call, recv behaving as res
WifiGetBytes(max_len, res) ==
    /\ Len(res.bytes) <= max_len        \* recv returns at most max_len bytes
    /\ SetAdapter(get_bytes(Adapter, max_len, res), "get_bytes")
    /\ UNCHANGED <<tokVars, engVars, obsVars, shadowVars, ioVars, sndVars, sockVars>>

\* the telnet setup of accept_client: send_telnet_response(0xFB, 0x01) and
\* send_telnet_response(0xFB, 0x03), six put_byte calls
Negotiation == <<IAC, 251, 1, IAC, 251, 3>>

RECURSIVE PutEach(_, _, _, _, _)
\* put_byte for each byte of data from index i on; the send of byte fail_at
\* fails with an error, the send of byte zero_at returns 0 (0 = none);
\* st = [connected, tx, sys]
PutEach(data, i, fail_at, zero_at, st) ==
    IF i > Len(data) THEN st
    ELSE IF ~st.connected THEN PutEach(data, i + 1, fail_at, zero_at, st)
    ELSE IF i = fail_at
         THEN PutEach(data, i + 1, fail_at, zero_at,
                      [st EXCEPT !.connected = FALSE, !.sys = "error"])
    ELSE IF i = zero_at
         THEN PutEach(data, i + 1, fail_at, zero_at, [st EXCEPT !.sys = "zero"])
    ELSE PutEach(data, i + 1, fail_at, zero_at,
                 [st EXCEPT !.tx = Append(st.tx, data[i]), !.sys = "sent"])

AcceptOutcomes == {"socket", "bind", "listen", "accept", "getfl", "setfl", "ok"}

\* accept_client that does not close the client socket it already has
accept_client_KeepOld(a, outcome, fail_at, zero_at) ==
    LET a0 == [a EXCEPT !.fd = -1, !.connected = FALSE] IN
    IF outcome = "socket" THEN [a0 EXCEPT !.errno = "EOTHER"]
    ELSE IF outcome \in {"bind", "listen", "accept"}
    THEN [a0 EXCEPT !.listen = FALSE, !.errno = "EOTHER"]
    ELSE LET a3 == [a0 EXCEPT !.listen = FALSE, !.fd = CLIENT_FD,
                              !.clients = a0.clients + 1] IN
    IF outcome \in {"getfl", "setfl"}
    THEN [a3 EXCEPT !.clients = a3.clients - 1, !.fd = -1, !.errno = "EOTHER"]
    ELSE LET st == PutEach(Negotiation, 1, fail_at, zero_at,
                           [connected |-> TRUE, tx |-> <<>>, sys |-> "none"])
         IN [a3 EXCEPT !.connected = st.connected, !.tx = st.tx, !.sys = st.sys,
                       !.errno = IF fail_at # 0 THEN "EOTHER" ELSE a.errno]

\* accept_client, the socket calls behaving as outcome says (the name of the
\* call that fails, or "ok"); clients and listen count the sockets open
accept_client(a, outcome, fail_at, zero_at) ==
    LET \* if (socket_fd_ >= 0) { close(socket_fd_); socket_fd_ = -1; }
        \* connected_ = false;
        a0 == [a EXCEPT !.clients = IF a.fd >= 0 THEN a.clients - 1 ELSE a.clients,
                        !.fd = -1,
                        !.connected = FALSE]
    IN
    \* listen_sock = socket(..) failed: nothing to close
    IF outcome = "socket" THEN [a0 EXCEPT !.errno = "EOTHER"]
    ELSE LET a1 == [a0 EXCEPT !.listen = TRUE] IN
    \* bind or listen failed: close(listen_sock); return false
    IF outcome \in {"bind", "listen"}
    THEN [a1 EXCEPT !.listen = FALSE, !.errno = "EOTHER"]
    \* socket_fd_ = accept(..); close(listen_sock);
    ELSE LET a2 == [a1 EXCEPT !.listen = FALSE] IN
    IF outcome = "accept" THEN [a2 EXCEPT !.errno = "EOTHER"]
    ELSE LET a3 == [a2 EXCEPT !.fd = CLIENT_FD, !.clients = a2.clients + 1] IN
    \* fcntl failed: close(socket_fd_); socket_fd_ = -1; return false
    IF outcome \in {"getfl", "setfl"}
    THEN [a3 EXCEPT !.clients = a3.clients - 1, !.fd = -1, !.errno = "EOTHER"]
    \* connected_ = true; the telnet setup; return true
    ELSE LET st == PutEach(Negotiation, 1, fail_at, zero_at,
                           [connected |-> TRUE, tx |-> <<>>, sys |-> "none"])
         IN [a3 EXCEPT !.connected = st.connected, !.tx = st.tx, !.sys = st.sys,
                       !.errno = IF fail_at # 0 THEN "EOTHER" ELSE a.errno]

\* the effect of an accept_client call on the adapter and its sockets; the
\* socket it accepts has nothing received yet
AcceptCall(outcome, fail_at, zero_at) ==
    /\ outcome # "ok" => (fail_at = 0 /\ zero_at = 0)
    /\ \E r \in {accept_client(Adapter, outcome, fail_at, zero_at)} :
          /\ SetAdapter(r, "accept_client")
          /\ open_clients' = r.clients
          /\ listen_open' = r.listen
    /\ sock_rx' = <<>>

AcceptClient(outcome, fail_at, zero_at) ==
    /\ AcceptCall(outcome, fail_at, zero_at)
    /\ UNCHANGED <<tokVars, engVars, obsVars, shadowVars, ioVars, sndVars>>

InitWifi ==
    /\ TokIdle
    /\ EngIdle
    /\ ObsInit
    /\ ShadowIdle
    /\ SndIdle
    /\ IoIdle
    /\ SockIdle
    /\ connected_ = FALSE
    /\ socket_fd_ = -1
    /\ errno_ \in {"none", "EAGAIN", "EOTHER"}
    /\ wifi_op = "init"
    /\ wifi_raw = <<>>
    /\ wifi_buf = <<>>
    /\ wifi_ret = 0
    /\ wifi_tx = <<>>
    /\ wifi_sys = "none"

NextWifi ==
    \/ \E o \in AcceptOutcomes \ {"ok"} : AcceptClient(o, 0, 0)
    \/ \E f \in 0..Len(Negotiation), z \in 0..Len(Negotiation) : AcceptClient("ok", f, z)
    \/ \E m \in {1, READ_BUFFER_SIZE} : \E res \in RecvResults : WifiGetBytes(m, res)

SpecWifi == InitWifi /\ [][NextWifi]_vars

-----------------------------------------------------------------------------
(* Stream harness: the client sends data bytes and complete control         *)
(* sequences; recv delivers what is queued in pieces of any length.         *)

\* IAC WILL SUPPRESS-GO-AHEAD, as a telnet client sends it
CONTROL_SEQ == <<IAC, 251, 3>>

\* what the client sends at a time: a data byte or a whole control sequence
PeerUnits == { <<65>>, <<66>>, CONTROL_SEQ }

\* the client sends unit; the TCP stack queues it
PeerSend(unit) ==
    /\ open_clients = 1
    /\ Len(sock_rx) + Len(unit) <= MaxQueued
    /\ sock_rx' = sock_rx \o unit
    /\ UNCHANGED <<open_clients, listen_open>>
    /\ UNCHANGED <<tokVars, engVars, obsVars, shadowVars, ioVars, wifiVars, sndVars>>

\* recv(socket_fd_, buffer, max_len, 0) on the non-blocking socket: the first
\* n queued bytes, or would-block when nothing is queued
SockRecv(n) ==
    IF Len(sock_rx) = 0 THEN [kind |-> "wouldblock", bytes |-> <<>>]
    ELSE [kind |-> "data", bytes |-> SubSeq(sock_rx, 1, n)]

\* the queue after a call that reached recv took n bytes
SockTake(n) ==
    /\ sock_rx' = IF connected_ /\ socket_fd_ >= 0
                  THEN SubSeq(sock_rx, n + 1, Len(sock_rx)) ELSE sock_rx
    /\ UNCHANGED <<open_clients, listen_open>>

\* get_bytes(buffer, max_len), recv delivering n bytes
StreamGetBytes(max_len, n) ==
    /\ n <= Min(max_len, Len(sock_rx))
    /\ n = 0 <=> Len(sock_rx) = 0
    /\ SetAdapter(get_bytes(Adapter, max_len, SockRecv(n)), "get_bytes")
    /\ SockTake(n)
    /\ UNCHANGED <<tokVars, engVars, obsVars, shadowVars, ioVars, sndVars>>

\* get_byte(): get_bytes(&c, 1)
StreamGetByte ==
    /\ \E n \in {Min(1, Len(sock_rx))} :
          /\ SetAdapter(get_byte(Adapter, SockRecv(n)), "get_byte")
          /\ SockTake(n)
    /\ UNCHANGED <<tokVars, engVars, obsVars, shadowVars, ioVars, sndVars>>

InitStream ==
    /\ TokIdle
    /\ EngIdle
    /\ ObsInit
    /\ ShadowIdle
    /\ WifiIdle
    /\ SndIdle
    /\ IoIdle
    /\ SockIdle

NextStream ==
    \/ AcceptClient("ok", 0, 0)
    \/ \E unit \in PeerUnits : PeerSend(unit)
    \/ \E n \in 0..MaxQueued : StreamGetBytes(READ_BUFFER_SIZE, n)
    \/ StreamGetByte

SpecStream == InitStream /\ [][NextStream]_vars

-----------------------------------------------------------------------------
(* ESP32WiFiIo::put_bytes step by step: what a process_input call is inside *)
(* of when it writes the prompt, an echo, a newline or a message.           *)

\* lengths of what process_input writes: one echoed byte, "\r\n", "\b \b",
\* the prompt, the "not found" text
WriteLengths == {1, 2, 3, Len(DEFAULT_PROMPT), Len(MSG_NOT_FOUND)}

\* the client connects (accept_client succeeded)
SndConnect ==
    /\ snd_pc = "idle"
    /\ ~connected_
    /\ connected_' = TRUE
    /\ socket_fd_' = CLIENT_FD
    /\ open_clients' = 1
    /\ UNCHANGED <<errno_, wifi_op, wifi_raw, wifi_buf, wifi_ret, wifi_tx, wifi_sys>>
    /\ UNCHANGED <<sock_rx, listen_open>>
    /\ UNCHANGED <<tokVars, engVars, obsVars, shadowVars, ioVars, sndVars>>

\* process_input calls put_bytes(data, len)
PutBytesCall(len) ==
    /\ snd_pc = "idle"
    /\ snd_len' = len
    /\ snd_offset' = 0
    /\ snd_pc' = IF ~connected_ \/ socket_fd_ < 0 \/ ~(0 < len) THEN "idle" ELSE "loop"
    /\ UNCHANGED snd_tick
    /\ UNCHANGED <<tokVars, engVars, obsVars, shadowVars, ioVars, wifiVars, sockVars>>

\* chunk_len of the current iteration
ChunkLen == IF snd_len - snd_offset < CHUNK_SIZE THEN snd_len - snd_offset ELSE CHUNK_SIZE

\* one iteration of while (offset < len): send returns result; -1 is an
\* error other than would-block, -2 stands for -1 with errno EAGAIN
SendIteration(result) ==
    /\ snd_pc = "loop"
    /\ result \in -2..ChunkLen
    /\ UNCHANGED <<socket_fd_, wifi_op, wifi_raw, wifi_buf, wifi_ret, wifi_tx, wifi_sys,
                   snd_len>>
    /\ IF result = -2
       THEN \* vTaskDelay(pdMS_TO_TICKS(1)); continue
            /\ errno_' = "EAGAIN"
            /\ snd_tick' = 1 - snd_tick
            /\ UNCHANGED <<connected_, snd_offset, snd_pc>>
       ELSE IF result = -1
       THEN /\ errno_' = "EOTHER"
            /\ connected_' = FALSE
            /\ snd_pc' = "idle"
            /\ UNCHANGED <<snd_offset, snd_tick>>
       ELSE IF result = 0
       THEN \* break
            /\ snd_pc' = "idle"
            /\ UNCHANGED <<connected_, errno_, snd_offset, snd_tick>>
       ELSE /\ snd_offset' = snd_offset + result
            /\ snd_pc' = IF snd_offset' < snd_len THEN "loop" ELSE "idle"
            /\ snd_tick' = IF snd_offset' < snd_len THEN 1 - snd_tick ELSE snd_tick
            /\ UNCHANGED <<connected_, errno_>>
    /\ UNCHANGED <<tokVars, engVars, obsVars, shadowVars, ioVars, sockVars>>

SendStep == \E result \in -2..CHUNK_SIZE : SendIteration(result)

InitSend ==
    /\ TokIdle
    /\ EngIdle
    /\ ObsInit
    /\ ShadowIdle
    /\ WifiIdle
    /\ SndIdle
    /\ IoIdle
    /\ SockIdle

NextSend ==
    \/ SndConnect
    \/ \E len \in WriteLengths : PutBytesCall(len)
    \/ SendStep

SpecSend == InitSend /\ [][NextSend]_vars /\ WF_vars(SendStep)

-----------------------------------------------------------------------------
(* The engine on the WiFi adapter: CliEngine's io_ is an ESP32WiFiIo.  Each *)
(* adapter operation is one step; a put_bytes call here is one that returns. *)

\* "\r\n" and "\b \b"
CRLF == <<CR, LF>>
ERASE == <<BS, SP, BS>>

\* CliIoInterface::print: put_bytes only for a non-empty string
PrintCalls(str) == IF Len(str) > 0 THEN << str >> ELSE <<>>

\* the put_bytes calls one call on io_ makes (a handler writes nothing)
CallsOf(ev) ==
    IF ev.op = "println" THEN PrintCalls(ev.s) \o PrintCalls(CRLF)
    ELSE IF ev.op = "send_backspace" THEN PrintCalls(ERASE)
    ELSE IF ev.op = "execute" THEN <<>>
    ELSE PrintCalls(ev.s)

RECURSIVE WireCalls(_)
\* the put_bytes calls of a sequence of calls on io_
WireCalls(evs) ==
    IF Len(evs) = 0 THEN <<>> ELSE CallsOf(Head(evs)) \o WireCalls(Tail(evs))

\* how the k-th put_bytes call of a process_input ends: as w.end when k = w.at
SendOutcome(data, k, w) ==
    IF k = w.at THEN [end |-> w.end, n |-> 0, retried |-> FALSE]
    ELSE [end |-> "sent", n |-> Len(data), retried |-> FALSE]

RECURSIVE PutAll(_, _, _, _)
\* the put_bytes calls of one process_input, numbered from k
PutAll(a, calls, k, w) ==
    IF Len(calls) = 0 THEN a
    ELSE PutAll(put_bytes(a, Head(calls), SendOutcome(Head(calls), k, w)),
                Tail(calls), k + 1, w)

\* what recv delivers from the client's typing
NetData == { <<97>>, <<CR>>, <<97, CR>>, <<IAC, 251, 1, 97, CR>> }

NetRecv ==
    { [kind |-> "data", bytes |-> d] : d \in NetData }
        \cup { [kind |-> k, bytes |-> <<>>] : k \in {"closed", "wouldblock", "error"} }

\* the put_bytes call of a process_input that does not send all (0: none)
NetWrites ==
    { [at |-> 0, end |-> "sent"], [at |-> 1, end |-> "error"],
      [at |-> 2, end |-> "error"], [at |-> 1, end |-> "zero"] }

\* how a single put_bytes call may end
SendOutcomes(len) ==
    { [end |-> "sent", n |-> len, retried |-> r] : r \in BOOLEAN }
        \cup { [end |-> e, n |-> 0, retried |-> FALSE] : e \in {"zero", "error"} }

\* process_input with io_ the adapter: send_prompt, then get_bytes, then the
\* echo and the messages
NetProcessInput(res, w) ==
    /\ Len(res.bytes) <= READ_BUFFER_SIZE
    /\ \E a2 \in {get_bytes(PutAll(Adapter,
                                   IF prompt_sent_ THEN <<>>
                                   ELSE PrintCalls(DEFAULT_PROMPT), 1, w),
                            READ_BUFFER_SIZE, res)} :
          /\ input_pos_ + CountRegular(SubSeq(a2.buf, 1, a2.ret)) <= MaxLine
          /\ EngineCall(SubSeq(a2.buf, 1, a2.ret))
          /\ SetAdapter(PutAll(a2,
                               WireCalls(IF prompt_sent_ THEN out' ELSE Tail(out')),
                               IF prompt_sent_ THEN 1 ELSE 2, w),
                        "process_input")
    /\ UNCHANGED <<tokVars, shadowVars, ioVars, sndVars, sockVars>>

\* the application calls reset_session
NetResetSession ==
    /\ ResetCall
    /\ SetAdapter(Adapter, "none")
    /\ UNCHANGED <<tokVars, shadowVars, ioVars, sndVars, sockVars>>

WifiByteAvailable(res) ==
    /\ SetAdapter(byte_available(Adapter, res), "byte_available")
    /\ UNCHANGED <<tokVars, engVars, obsVars, shadowVars, ioVars, sndVars, sockVars>>

WifiGetByte(res) ==
    /\ Len(res.bytes) <= 1
    /\ SetAdapter(get_byte(Adapter, res), "get_byte")
    /\ UNCHANGED <<tokVars, engVars, obsVars, shadowVars, ioVars, sndVars, sockVars>>

WifiPutByte(c, o) ==
    /\ SetAdapter(put_byte(Adapter, c, o), "put_byte")
    /\ UNCHANGED <<tokVars, engVars, obsVars, shadowVars, ioVars, sndVars, sockVars>>

WifiPutBytes(data, o) ==
    /\ SetAdapter(put_bytes(Adapter, data, o), "put_bytes")
    /\ UNCHANGED <<tokVars, engVars, obsVars, shadowVars, ioVars, sndVars, sockVars>>

InitNet ==
    /\ TokIdle
    /\ EngIdle
    /\ ObsInit
    /\ ShadowIdle
    /\ WifiIdle
    /\ SndIdle
    /\ IoIdle
    /\ SockIdle

NextNet ==
    \/ \E o \in AcceptOutcomes \ {"ok"} : AcceptClient(o, 0, 0)
    \/ \E f \in {0, 1, Len(Negotiation)} : AcceptClient("ok", f, 0)
    \/ \E res \in NetRecv, w \in NetWrites : NetProcessInput(res, w)
    \/ NetResetSession
    \/ \E res \in NetRecv : WifiGetBytes(READ_BUFFER_SIZE, res)
    \/ \E res \in NetRecv : WifiByteAvailable(res)
    \/ \E res \in NetRecv : WifiGetByte(res)
    \/ \E o \in SendOutcomes(1) : WifiPutByte(65, o)
    \/ \E data \in { <<>>, <<65, 66>> } : \E o \in SendOutcomes(Len(data)) :
          WifiPutBytes(data, o)

SpecNet == InitNet /\ [][NextNet]_vars

-----------------------------------------------------------------------------
(* CliIoInterface: the default put_bytes and get_bytes of an adapter that   *)
(* implements only put_byte, get_byte and byte_available.  The device here  *)
(* has a byte available while io_rx is not empty and get_byte takes the     *)
(* oldest one.                                                              *)

RECURSIVE DefaultPutLoop(_, _, _)
\* for (count = 0; count < len; count++) put_byte(data[count]);
DefaultPutLoop(data, count, log) ==
    IF count < Len(data)
    THEN DefaultPutLoop(data, count + 1, Append(log, Ev("put_byte", <<data[count + 1]>>)))
    ELSE log

\* CliIoInterface::put_bytes: the calls it makes
default_put_bytes(data) == DefaultPutLoop(data, 0, <<>>)

RECURSIVE DefaultGetLoop(_, _, _, _, _)
\* while (count < max_len && byte_available()) buffer[count++] = get_byte();
DefaultGetLoop(rx, max_len, count, buffer, log) ==
    IF ~(count < max_len) THEN [rx |-> rx, ret |-> count, buf |-> buffer, log |-> log]
    ELSE IF Len(rx) = 0
         THEN [rx |-> rx, ret |-> count, buf |-> buffer,
               log |-> Append(log, Ev("byte_available", <<0>>))]
    ELSE DefaultGetLoop(Tail(rx), max_len, count + 1, Append(buffer, Head(rx)),
                        log \o << Ev("byte_available", <<1>>),
                                  Ev("get_byte", <<Head(rx)>>) >>)

RECURSIVE DefaultGetLoop_Unpolled(_, _, _, _, _)
\* the loop as while (count < max_len) buffer[count++] = get_byte(); get_byte
\* returning 0 when the device has nothing
DefaultGetLoop_Unpolled(rx, max_len, count, buffer, log) ==
    IF ~(count < max_len) THEN [rx |-> rx, ret |-> count, buf |-> buffer, log |-> log]
    ELSE LET c == IF Len(rx) = 0 THEN NUL ELSE Head(rx) IN
         DefaultGetLoop_Unpolled(IF Len(rx) = 0 THEN rx ELSE Tail(rx), max_len,
                                 count + 1, Append(buffer, c),
                                 Append(log, Ev("get_byte", <<c>>)))

\* get_bytes with the loop that does not poll
default_get_bytes_Unpolled(rx, max_len) ==
    DefaultGetLoop_Unpolled(rx, max_len, 0, <<>>, <<>>)

\* CliIoInterface::get_bytes on a device holding rx
default_get_bytes(rx, max_len) == DefaultGetLoop(rx, max_len, 0, <<>>, <<>>)

IoBytes == SeqsUpTo({65, 66}, MaxPending)

\* bytes reach the device
IoArrive(bytes) ==
    /\ Len(bytes) > 0
    /\ Len(io_rx) + Len(bytes) <= MaxPending
    /\ io_rx' = io_rx \o bytes
    /\ io_op' = "arrive"
    /\ io_data' = <<>>
    /\ io_max' = 0
    /\ io_log' = <<>>
    /\ io_buf' = <<>>
    /\ io_ret' = 0
    /\ UNCHANGED <<tokVars, engVars, obsVars, shadowVars, wifiVars, sndVars, sockVars>>

IoPutBytes(data) ==
    /\ io_op' = "put_bytes"
    /\ io_data' = data
    /\ io_log' = default_put_bytes(data)
    /\ io_max' = 0
    /\ io_buf' = <<>>
    /\ io_ret' = 0
    /\ UNCHANGED io_rx
    /\ UNCHANGED <<tokVars, engVars, obsVars, shadowVars, wifiVars, sndVars, sockVars>>

IoGetBytes(max_len) ==
    /\ \E r \in {default_get_bytes(io_rx, max_len)} :
          /\ io_rx' = r.rx
          /\ io_log' = r.log
          /\ io_buf' = r.buf
          /\ io_ret' = r.ret
    /\ io_op' = "get_bytes"
    /\ io_max' = max_len
    /\ io_data' = <<>>
    /\ UNCHANGED <<tokVars, engVars, obsVars, shadowVars, wifiVars, sndVars, sockVars>>

InitIo ==
    /\ TokIdle
    /\ EngIdle
    /\ ObsInit
    /\ ShadowIdle
    /\ WifiIdle
    /\ SndIdle
    /\ IoIdle
    /\ SockIdle

NextIo ==
    \/ \E bytes \in IoBytes : IoArrive(bytes)
    \/ \E data \in IoBytes : IoPutBytes(data)
    \/ \E max_len \in 0..MaxPending : IoGetBytes(max_len)

SpecIo == InitIo /\ [][NextIo]_vars

-----------------------------------------------------------------------------
(* Tokenizer harness: the input line is built from tokens and gaps *)

W_a == <<97>>
W_11 == <<98, 99, 100, 101, 102, 103, 104, 105, 106, 107, 108>>
W_13 == <<109, 110, 111, 112, 113, 114, 115, 116, 117, 118, 119, 120, 121>>
Words == {W_a, W_11, W_13}

\* "led on extra1 extra2 extra3 extra4"
ExampleWords ==
    << <<108, 101, 100>>, <<111, 110>>, <<101, 120, 116, 114, 97, 49>>,
       <<101, 120, 116, 114, 97, 50>>, <<101, 120, 116, 114, 97, 51>>,
       <<101, 120, 116, 114, 97, 52>> >>

RECURSIVE JoinWords(_, _)
JoinWords(ws, gap) ==
    IF Len(ws) = 0 THEN <<>>
    ELSE IF Len(ws) = 1 THEN ws[1]
    ELSE ws[1] \o Spaces(gap) \o JoinWords(Tail(ws), gap)

BuildLine(ws, lead, gap, trail) == Spaces(lead) \o JoinWords(ws, gap) \o Spaces(trail)

tok_line == BuildLine(tok_words, tok_lead, tok_gap, tok_trail)

WordSeqs == UNION {[1..n -> Words] : n \in 0..MaxTokens}

InitTok ==
    /\ tok_words \in WordSeqs \cup {ExampleWords}
    /\ tok_lead \in 0..1
    /\ tok_gap \in 1..MaxGap
    /\ tok_trail \in 0..1
    /\ tok_pc = "input"
    /\ tok_args = EmptyArgs
    /\ EngIdle
    /\ ObsInit
    /\ ShadowIdle
    /\ WifiIdle
    /\ SndIdle
    /\ IoIdle
    /\ SockIdle

Tokenize ==
    /\ tok_pc = "input"
    /\ tok_args' = parse_command_line(tok_line)
    /\ tok_pc' = "parsed"
    /\ UNCHANGED <<tok_words, tok_lead, tok_gap, tok_trail>>
    /\ UNCHANGED <<engVars, obsVars, shadowVars, ioVars, wifiVars, sndVars, sockVars>>

NextTok == Tokenize

SpecTok == InitTok /\ [][NextTok]_vars

-----------------------------------------------------------------------------
(* Claims about the tokenizer *)

\* the first MAX_ARG_LENGTH-1 characters of a token
Truncated(w) == SubSeq(w, 1, Min(Len(w), MAX_ARG_LENGTH - 1))

ShortWords(ws) == \A i \in 1..Len(ws) : Len(ws[i]) <= MAX_ARG_LENGTH - 1

\* C4: a line of more than MAX_ARGS tokens (none over-long) is tokenized to
\* argc = MAX_ARGS, the arguments being the first MAX_ARGS tokens in order.
C4_FirstMaxArgsTokens ==
    (tok_pc = "parsed" /\ Len(tok_words) > MAX_ARGS /\ ShortWords(tok_words))
        => /\ tok_args.argc = MAX_ARGS
           /\ \A i \in 0..(MAX_ARGS - 1) : Arg(tok_args, i) = tok_words[i + 1]

\* C5: every token, over-long or not, yields exactly one argument, equal to
\* the token's first MAX_ARG_LENGTH-1 characters, so that arguments and tokens
\* correspond one-to-one (lines of at most MAX_ARGS-1 tokens, which the
\* tokenizer's argument limit does not cut).
C5_LongTokenTruncated ==
    (tok_pc = "parsed" /\ Len(tok_words) <= MAX_ARGS - 1)
        => /\ tok_args.argc = Len(tok_words)
           /\ \A i \in 0..(Len(tok_words) - 1) :
                  Arg(tok_args, i) = Truncated(tok_words[i + 1])

-----------------------------------------------------------------------------
(* Claims about the session *)

\* byte i of the chunk was processed by the accumulator in the last
\* process_input: trace[i] is the snapshot before it, trace[i+1] the one after
Processed(i) == op = "process_input" /\ i >= 1 /\ i + 1 <= Len(trace)

NewLine == Ev("println", <<>>)

RECURSIVE Count(_, _)
\* occurrences of event e in the sequence q
Count(q, e) ==
    IF Len(q) = 0 THEN 0 ELSE (IF Head(q) = e THEN 1 ELSE 0) + Count(Tail(q), e)

\* the io_ calls the accumulator made for bytes i.. of the chunk
AccOutFrom(i) == SubSeq(out, trace[i].nout + 1, trace[Len(trace)].nout)

\* an empty-line signal at byte i: one newline echoed, prompt re-armed, no line
EmptyLineSignal(i) ==
    /\ trace[i + 1].nout = trace[i].nout + 1
    /\ out[trace[i + 1].nout] = NewLine
    /\ ~trace[i + 1].prompt
    /\ ~trace[i + 1].done
    /\ trace[i + 1].pos = 0

\* CR LF in one read, CR ending a non-empty line: one line, one newline, and
\* nothing after the CR
CRLF_SameRead ==
    \A i \in 1..(Len(chunk) - 1) :
        (Processed(i) /\ chunk[i] = CR /\ chunk[i + 1] = LF /\ trace[i].pos > 0)
            => /\ Len(line) = 1
               /\ line[1].text = trace[i].text
               /\ Len(trace) = i + 1
               /\ Count(AccOutFrom(i), NewLine) = 1

\* LF first in a read, the last terminator before it being CR: no effect
CRLF_TwoReads ==
    (Processed(1) /\ chunk[1] = LF /\ trace[1].last = CR)
        => /\ trace[2].pos = trace[1].pos
           /\ trace[2].text = trace[1].text
           /\ trace[2].nout = trace[1].nout
           /\ trace[2].prompt = trace[1].prompt
           /\ ~trace[2].done
           /\ Len(line) = 0 \/ Len(trace) > 2

\* C2 as stated: CR LF after a non-empty line gives one line and no empty-line
\* signal, in one read or two; LF LF arriving with an empty buffer gives two
\* empty-line signals and no command.
C2_Original ==
    /\ CRLF_SameRead
    /\ CRLF_TwoReads
    /\ \A i \in 1..(Len(chunk) - 1) :
          (Processed(i) /\ Processed(i + 1) /\ chunk[i] = LF /\ chunk[i + 1] = LF
                /\ trace[i].pos = 0)
              => EmptyLineSignal(i) /\ EmptyLineSignal(i + 1)

\* C2 amended: as C2, the LF LF part holding when the last terminator byte
\* seen before the pair is not CR (each LF arriving with an empty buffer and a
\* last terminator other than CR is an empty-line signal).
C2_CRLF ==
    /\ CRLF_SameRead
    /\ CRLF_TwoReads
    /\ \A i \in 1..Len(chunk) :
          (Processed(i) /\ chunk[i] = LF /\ trace[i].pos = 0 /\ trace[i].last # CR)
              => EmptyLineSignal(i)

\* a read CR LF after a typed character, and a read LF LF on an empty buffer
C2_Witness ==
    /\ op = "process_input"
    /\ chunk = <<LF, LF>>
    /\ Len(trace) = 3
    /\ trace[1].pos = 0
    /\ trace[1].last = LF
    /\ EmptyLineSignal(1)
    /\ EmptyLineSignal(2)

\* C3: backspace (8 or 127) on an empty buffer changes and emits nothing; on
\* a non-empty buffer it removes exactly the last character and emits exactly
\* one erase sequence; the length never goes below 0.
C3_Backspace ==
    /\ input_pos_ >= 0
    /\ op = "process_input" =>
         \A i \in 1..Len(chunk) :
            (Processed(i) /\ chunk[i] \in {BS, DEL}) =>
                LET p == trace[i]
                    q == trace[i + 1]
                IN /\ q.pos >= 0
                   /\ q.last = p.last /\ q.prompt = p.prompt /\ ~q.done
                   /\ p.pos = 0 => (q.pos = 0 /\ q.text = p.text /\ q.nout = p.nout)
                   /\ p.pos > 0 =>
                        /\ q.pos = p.pos - 1
                        /\ q.text = SubSeq(p.text, 1, p.pos - 1)
                        /\ q.nout = p.nout + 1
                        /\ out[q.nout] = Ev("send_backspace", <<>>)

\* one read in which a backspace erases the only character and the next one
\* finds the buffer empty
C3_Witness ==
    /\ op = "process_input"
    /\ Len(chunk) = 2 /\ Len(trace) = 3
    /\ chunk[1] \in {BS, DEL} /\ chunk[2] \in {BS, DEL}
    /\ trace[1].pos = 1 /\ trace[2].pos = 0 /\ trace[3].pos = 0

\* C6: dispatching an invocation whose argv[0] is "help" returns true and
\* prints the built-in help, and the user entry named "help" is not invoked.
C6_HelpBuiltin ==
    (op \in {"process_input", "execute_command"} /\ last_args.argc > 0
        /\ Arg(last_args, 0) = HELP)
        => /\ handled = "true"
           /\ invoked = <<>>
           /\ \A i \in 1..Len(out) : out[i].op # "execute"
           /\ Len(out) >= Len(print_help)
           /\ SubSeq(out, Len(out) - Len(print_help) + 1, Len(out)) = print_help
           /\ Count(out, Ev("println", MSG_AVAILABLE)) = 1

\* "help" typed at the terminal while the table registers a user "help"
C6_Witness ==
    /\ op = "process_input"
    /\ Len(line) = 1 /\ line[1].text = HELP
    /\ handled = "true"
    /\ \E i \in 1..command_count_ : commands_[i].name = HELP

NotFoundOutput ==
    << Ev("print", MSG_COMMAND), Ev("print", Arg(last_args, 0)),
       Ev("println", MSG_NOT_FOUND) >>

\* C7: after process_input completes a line whose first token is no command,
\* no handler ran, "not found" was written once, the buffer is empty, the next
\* call emits the prompt, and a valid command typed next is dispatched.
C7_UnknownCommand ==
    [][ (op = "process_input" /\ handled = "false") =>
          /\ invoked = <<>>
          /\ Count(out, Ev("println", MSG_NOT_FOUND)) = 1
          /\ SubSeq(out, Len(out) - 2, Len(out)) = NotFoundOutput
          /\ input_pos_ = 0
          /\ ~prompt_sent_
          /\ op' = "process_input" => out'[1] = Ev("send_prompt", DEFAULT_PROMPT)
          /\ (op' = "process_input" /\ chunk' \in { <<97, CR>>, <<97, LF>> })
                => (Len(invoked') = 1 /\ invoked'[1].idx = 1) ]_vars

\* C9: after reset_session the buffer is all zero, the cursor 0, the last
\* terminator and the prompt flag cleared, and no line completed afterwards
\* contains a character typed before the reset.
C9_Reset ==
    /\ op = "reset_session" =>
          /\ input_buffer_ = Zeros(CMD_BUFFER_SIZE)
          /\ input_pos_ = 0
          /\ last_line_char_ = 0
          /\ ~prompt_sent_
    /\ stale = 0
    /\ \A i \in 1..Len(line) : line[i].stale = 0

\* a command dispatched after a reset that discarded a partial line
C9_Witness ==
    /\ op = "process_input"
    /\ discarded
    /\ Len(line) = 1
    /\ handled = "true"

-----------------------------------------------------------------------------
(* Claims about chunking, the framing filter and termination *)

\* C1: delivering a byte sequence in one read or split over many reads gives
\* the same sequence of completed lines.
C1_ChunkingInvariance == eng_lines = ref_lines

RECURSIVE StripControl(_)
\* a byte sequence without its 0xFF-introduced 3-byte control sequences
StripControl(q) ==
    IF Len(q) = 0 THEN <<>>
    ELSE IF Head(q) = IAC THEN StripControl(SubSeq(q, 4, Len(q)))
    ELSE <<Head(q)>> \o StripControl(Tail(q))

\* the payload get_bytes returned
Payload == SubSeq(wifi_buf, 1, wifi_ret)

\* C8: get_bytes returns the received bytes without the 0xFF-introduced
\* 3-byte control sequences, in order and compacted from index 0, the count
\* being the number of bytes kept; no 0xFF is returned and the payload is not
\* longer than the input; [0x41,0xFF,0xFB,0x01,0x42] gives [0x41,0x42].
C8_FramingFilter ==
    (wifi_op = "get_bytes" /\ Len(wifi_raw) > 0)
        => /\ wifi_ret \in 0..Len(wifi_raw)
           /\ Payload = StripControl(wifi_raw)
           /\ \A i \in 1..wifi_ret : wifi_buf[i] # IAC
           /\ wifi_raw = ExampleFrame => Payload = <<65, 66>>

\* the example frame has been filtered
C8_Witness ==
    /\ wifi_op = "get_bytes"
    /\ wifi_raw = ExampleFrame
    /\ wifi_ret = 2

\* C10: every process_input call returns: a put_bytes call it makes on the
\* WiFi adapter ends, whatever send reports.
C10_ProcessInputReturns == (snd_pc = "loop") ~> (snd_pc = "idle")

\* C11: when the recv or send of an adapter call on a connected adapter
\* reports an orderly close or an error other than would-block, connected_ is
\* false when the call returns, whatever earlier calls did.
C11_TransportFailure ==
    wifi_sys \in {"closed", "error"} => ~connected_

\* C12: while the adapter is disconnected no operation other than
\* accept_client sends or receives a byte or calls recv or send, process_input
\* dispatches nothing and leaves the line buffer and the cursor as they were,
\* and connected_ becomes true only in an accept_client that got a client.
C12_DisconnectedQuiet ==
    [][ /\ (~connected_ /\ wifi_op' # "accept_client") =>
              /\ wifi_tx' = <<>>
              /\ wifi_raw' = <<>>
              /\ wifi_ret' = 0
              /\ wifi_sys' = "none"
              /\ wifi_op' = "process_input" =>
                    /\ chunk' = <<>>
                    /\ line' = <<>>
                    /\ handled' = "none"
                    /\ invoked' = <<>>
                    /\ input_buffer_' = input_buffer_
                    /\ input_pos_' = input_pos_
        /\ (~connected_ /\ connected_') =>
              (wifi_op' = "accept_client" /\ socket_fd_' = CLIENT_FD) ]_vars

\* a process_input call made with a partial line typed and the adapter
\* disconnected
C12_Witness ==
    /\ wifi_op = "process_input"
    /\ op = "process_input"
    /\ ~connected_
    /\ wifi_sys = "none"
    /\ input_pos_ > 0
    /\ chunk = <<>>

\* C13: every CommandArgs the tokenizer returns has 0 <= argc <= MAX_ARGS;
\* each argv[i], i < argc, is a null-terminated string of 1 to
\* MAX_ARG_LENGTH-1 characters without a space; each slot from argc on is empty.
C13_CommandArgsInvariant ==
    tok_pc = "parsed" =>
        /\ tok_args.argc \in 0..MAX_ARGS
        /\ \A i \in 1..MAX_ARGS :
              LET slot == tok_args.argv[i]
                  n == StrLen(slot, 1)
              IN IF i <= tok_args.argc
                 THEN /\ n >= 1
                      /\ n <= MAX_ARG_LENGTH - 1
                      /\ slot[n + 1] = NUL
                      /\ \A j \in 1..n : slot[j] # SP
                 ELSE slot = Zeros(MAX_ARG_LENGTH)

\* a line of more tokens than fit, the first one over-long, after leading spaces
C13_Witness ==
    /\ tok_pc = "parsed"
    /\ Len(tok_words) > MAX_ARGS
    /\ tok_words[1] = W_13
    /\ tok_words[2] = W_11
    /\ tok_lead = 1
    /\ tok_args.argc = MAX_ARGS - 1

\* C19: a token of at most 16 characters (the README's default for
\* MAX_ARG_LENGTH) is returned as one argument, unmodified.
C19_ReadmeArgLength ==
    (tok_pc = "parsed" /\ Len(tok_words) = 1
        /\ Len(tok_words[1]) <= README_MAX_ARG_LENGTH)
        => /\ tok_args.argc = 1
           /\ Arg(tok_args, 0) = tok_words[1]

Matching(a) == { i \in 1..command_count_ : commands_[i].name = Arg(a, 0) }

\* C14: dispatch of an invocation whose argv[0] is not "help": if entries of
\* the table are named exactly argv[0], the handler of the first of them, and
\* no other, is invoked once with the invocation and dispatch returns true;
\* otherwise, and whenever argc = 0, nothing is invoked and it returns false.
C14_DispatchFirstMatch ==
    (handled # "none" /\ Arg(last_args, 0) # HELP) =>
        IF last_args.argc > 0 /\ Matching(last_args) # {}
        THEN /\ handled = "true"
             /\ invoked = << [idx |-> CHOOSE i \in Matching(last_args) :
                                         \A j \in Matching(last_args) : i <= j,
                              args |-> last_args] >>
             /\ Count(out, Ev("execute", <<invoked[1].idx>>)) = 1
             /\ \A k \in 1..Len(out) :
                   out[k].op = "execute" => out[k].s = <<invoked[1].idx>>
        ELSE /\ handled = "false"
             /\ invoked = <<>>
             /\ \A k \in 1..Len(out) : out[k].op # "execute"

\* execute_command(" a a"): two entries are named "a", the first one runs
C14_Witness ==
    /\ op = "execute_command"
    /\ chunk = <<SP, 97, SP, 97>>
    /\ Cardinality(Matching(last_args)) = 2
    /\ last_args.argc = 2
    /\ handled = "true"
    /\ Len(invoked) = 1 /\ invoked[1].idx = 1

\* C15: when process_input returns after completing a line, prompt_sent_ is
\* false, whatever the line holds.
C15_PromptAfterLine ==
    (op = "process_input" /\ Len(line) = 1) => ~prompt_sent_

\* byte i of the last read was a terminator, not the LF of a CR LF pair,
\* arriving with an empty buffer
EmptyTerminator(i) ==
    /\ Processed(i)
    /\ chunk[i] \in {CR, LF}
    /\ trace[i].pos = 0
    /\ ~(chunk[i] = LF /\ trace[i].last = CR)

\* C16: a terminator arriving with an empty buffer echoes one newline,
\* completes no line, leads to no dispatch and clears prompt_sent_, and the
\* process_input call after it sends the prompt first.
C16_EmptyTerminator ==
    /\ [](\A i \in 1..Len(chunk) :
            EmptyTerminator(i) =>
                /\ EmptyLineSignal(i)
                /\ trace[i + 1].text = <<>>
                /\ Len(trace) = i + 1 => (line = <<>> /\ handled = "none"
                                            /\ invoked = <<>>)
                /\ ~prompt_sent_)
    /\ [][ ((\E i \in 1..Len(chunk) : EmptyTerminator(i)) /\ op' = "process_input")
              => out'[1] = Ev("send_prompt", DEFAULT_PROMPT) ]_vars

\* Enter pressed on an empty line after the prompt was shown
C16_Witness ==
    /\ op = "process_input"
    /\ chunk = <<CR>>
    /\ Len(trace) = 2
    /\ trace[1].pos = 0
    /\ trace[1].prompt
    /\ out = << NewLine >>
    /\ ~prompt_sent_

\* the width of the name column: the longest name, "help" included
HelpWidth ==
    CHOOSE w \in {Len(HELP)} \cup {Len(commands_[i].name) : i \in 1..command_count_} :
        /\ w >= Len(HELP)
        /\ \A i \in 1..command_count_ : w >= Len(commands_[i].name)

\* the listing: blank line and header, the line of "help", a line per entry
\* in registration order, a blank line
HelpListing ==
    << Ev("println", <<>>), Ev("println", MSG_AVAILABLE),
       Ev("printf", FormatHelpLine(HelpWidth, HELP, MSG_SHOW)) >>
    \o [i \in 1..command_count_ |->
           Ev("printf", FormatHelpLine(HelpWidth, commands_[i].name, commands_[i].help))]
    \o << Ev("println", <<>>) >>

\* C18: the built-in help writes the header, the line of "help", one line per
\* registered command in registration order, each the padded name, the whole
\* help text and a line break, and the footer.
C18_HelpListing ==
    (op \in {"process_input", "execute_command"} /\ last_args.argc > 0
        /\ Arg(last_args, 0) = HELP)
        => /\ Len(out) >= Len(HelpListing)
           /\ SubSeq(out, Len(out) - Len(HelpListing) + 1, Len(out)) = HelpListing

PromptCall == Ev("send_prompt", DEFAULT_PROMPT)

\* the last process_input processed a terminator that was not the LF of a
\* CR LF pair
TerminatorProcessed ==
    \E i \in 1..Len(chunk) :
        Processed(i) /\ chunk[i] \in {CR, LF} /\ ~(chunk[i] = LF /\ trace[i].last = CR)

\* C21: process_input writes the prompt, once and first, exactly when
\* prompt_sent_ is false, and sets the flag before it reads; the flag is
\* cleared only by a process_input that processed a terminator (not a
\* suppressed LF) or by reset_session, and no other operation writes the prompt.
C21_PromptProtocol ==
    [][ /\ op' = "process_input" =>
              /\ Count(out', PromptCall) = (IF prompt_sent_ THEN 0 ELSE 1)
              /\ ~prompt_sent_ => out'[1] = PromptCall
              /\ trace'[1].prompt
              /\ ~prompt_sent_' => TerminatorProcessed'
        /\ op' # "process_input" => Count(out', PromptCall) = 0
        /\ (op' = "execute_command" /\ prompt_sent_) => prompt_sent_' ]_vars

\* a call that reads one more character of a line while the prompt is
\* outstanding writes the echo only
C21_Witness ==
    /\ op = "process_input"
    /\ chunk = <<97>>
    /\ trace[1].pos > 0
    /\ out = << Ev("put_byte", <<97>>) >>
    /\ prompt_sent_

\* C22: a process_input call whose get_bytes returns 0 bytes leaves
\* input_buffer_, input_pos_ and last_line_char_ as they were, invokes no
\* handler and writes only the prompt, and that only when prompt_sent_ was false.
C22_IdleTick ==
    [][ (op' = "process_input" /\ chunk' = <<>>) =>
            /\ input_buffer_' = input_buffer_
            /\ input_pos_' = input_pos_
            /\ last_line_char_' = last_line_char_
            /\ prompt_sent_'
            /\ line' = <<>>
            /\ handled' = "none"
            /\ invoked' = <<>>
            /\ out' = (IF prompt_sent_ THEN <<>> ELSE << PromptCall >>) ]_vars

\* an idle call in the middle of a line, after a CR-terminated line
C22_Witness ==
    /\ op = "process_input"
    /\ chunk = <<>>
    /\ input_pos_ > 0
    /\ last_line_char_ = CR
    /\ out = <<>>

\* C23: a process_input call reads at most READ_BUFFER_SIZE bytes, completes
\* and dispatches at most one line, and the accumulator processes every byte
\* read.
C23_EveryByteProcessed ==
    op = "process_input" =>
        /\ Len(chunk) <= READ_BUFFER_SIZE
        /\ Len(line) <= 1
        /\ Len(invoked) <= 1
        /\ Len(trace) = Len(chunk) + 1

\* C29: with a non-empty buffer, a CR, or an LF that follows another byte
\* than CR in the byte stream, completes the line.
C29_MixedTerminators ==
    \A i \in 2..Len(chunk) :
        (Processed(i) /\ trace[i].pos > 0
            /\ (chunk[i] = CR \/ (chunk[i] = LF /\ chunk[i - 1] # CR)))
            => /\ trace[i + 1].done
               /\ Len(line) = 1
               /\ line[1].text = trace[i].text

RECURSIVE CompleteUnits(_)
\* q consists of data bytes and whole 3-byte control sequences
CompleteUnits(q) ==
    IF Len(q) = 0 THEN TRUE
    ELSE IF Head(q) = IAC THEN Len(q) >= 3 /\ CompleteUnits(SubSeq(q, 4, Len(q)))
    ELSE CompleteUnits(Tail(q))

\* C24: when a control sequence starts at one of the last two bytes recv
\* delivered, get_bytes returns the data bytes before it, in order, drops the
\* partial sequence, and the adapter stays connected.
C24_TruncatedSequence ==
    (wifi_op = "get_bytes" /\ wifi_sys = "data") =>
        \A p \in 1..Len(wifi_raw) :
            (p >= Len(wifi_raw) - 1 /\ wifi_raw[p] = IAC
                /\ CompleteUnits(SubSeq(wifi_raw, 1, p - 1)))
                => /\ Payload = StripControl(SubSeq(wifi_raw, 1, p - 1))
                   /\ wifi_ret = Len(StripControl(SubSeq(wifi_raw, 1, p - 1)))
                   /\ connected_

\* "AB", then 0xFF and one more byte
C24_Witness ==
    /\ wifi_op = "get_bytes"
    /\ wifi_raw = <<65, 66, IAC, 65>>
    /\ wifi_ret = 2
    /\ Payload = <<65, 66>>
    /\ connected_

\* C25: an accept_client that got a client has sent the two negotiation
\* sequences, once and whole, when it returns; one that failed has sent nothing.
C25_Negotiation ==
    wifi_op = "accept_client" =>
        wifi_tx = (IF socket_fd_ = CLIENT_FD THEN Negotiation ELSE <<>>)

\* C26: when recv reports would-block, get_bytes, get_byte and
\* byte_available return 0 and the adapter stays connected, and the get_bytes
\* call after it calls recv again.
C26_WouldBlock ==
    /\ [](wifi_sys = "wouldblock" => (wifi_ret = 0 /\ connected_ /\ socket_fd_ >= 0))
    /\ [][ (wifi_sys = "wouldblock" /\ wifi_op' = "get_bytes") =>
              /\ wifi_sys' # "none"
              /\ wifi_sys' = "data" => wifi_ret' = Len(StripControl(wifi_raw')) ]_vars

\* a poll that found nothing to read
C26_Witness ==
    /\ wifi_op = "byte_available"
    /\ wifi_sys = "wouldblock"
    /\ errno_ = "EAGAIN"
    /\ wifi_ret = 0
    /\ connected_

IsGetByte(ev) == ev.op = "get_byte"

\* C27: the default put_bytes calls put_byte once per byte of data, in order,
\* and nothing else; the default get_bytes returns a count <= max_len, stores
\* the results of its get_byte calls in order, calls get_byte only after a
\* byte_available that returned true, and stops at the first that returned false.
C27_DefaultBulk ==
    /\ io_op = "put_bytes" =>
          io_log = [i \in 1..Len(io_data) |-> Ev("put_byte", <<io_data[i]>>)]
    /\ io_op = "get_bytes" =>
          /\ io_ret <= io_max
          /\ io_ret = Len(io_buf)
          /\ Len(SelectSeq(io_log, IsGetByte)) = io_ret
          /\ \A i \in 1..io_ret : SelectSeq(io_log, IsGetByte)[i].s = <<io_buf[i]>>
          /\ \A k \in 1..Len(io_log) :
                /\ io_log[k].op \in {"byte_available", "get_byte"}
                /\ io_log[k].op = "get_byte" =>
                      (k > 1 /\ io_log[k - 1] = Ev("byte_available", <<1>>))
                /\ io_log[k] = Ev("byte_available", <<1>>) =>
                      (k < Len(io_log) /\ io_log[k + 1].op = "get_byte")
                /\ io_log[k] = Ev("byte_available", <<0>>) => k = Len(io_log)
          /\ io_ret < io_max => io_log[Len(io_log)] = Ev("byte_available", <<0>>)

\* get_bytes asked for three bytes of a device that had two
C27_Witness ==
    /\ io_op = "get_bytes"
    /\ io_max = 3
    /\ io_ret = 2
    /\ Len(io_log) = 5
    /\ io_rx = <<>>

\* C28: whatever process_input, execute_command and reset_session calls were
\* made, 0 <= input_pos_ <= CMD_BUFFER_SIZE-1, and every write the last
\* process_input made to the line buffer was at an index in
\* 0..CMD_BUFFER_SIZE-1.
C28_CursorInRange ==
    /\ input_pos_ \in 0..(CMD_BUFFER_SIZE - 1)
    /\ Len(input_buffer_) = CMD_BUFFER_SIZE
    /\ \A i \in 1..Len(trace) :
          /\ trace[i].pos \in 0..(CMD_BUFFER_SIZE - 1)
          /\ trace[i].wr \subseteq 0..(CMD_BUFFER_SIZE - 1)

\* a full read of 'a' took the cursor from 96 to its limit: the 32nd byte
\* found no room, the 31st was written at index 126
C28_Witness ==
    /\ op = "process_input"
    /\ Len(chunk) = READ_BUFFER_SIZE
    /\ Len(trace) = READ_BUFFER_SIZE + 1
    /\ trace[1].pos = CMD_BUFFER_SIZE - READ_BUFFER_SIZE
    /\ trace[READ_BUFFER_SIZE].wr = {CMD_BUFFER_SIZE - 2}
    /\ trace[READ_BUFFER_SIZE + 1].wr = {}
    /\ input_pos_ = CMD_BUFFER_SIZE - 1

\* the entries a completed line names
Named(text) == { i \in 1..command_count_ : commands_[i].name = text }

\* C30: when process_input completes a line that is exactly the name of an
\* entry of the command table, a name without a space and other than "help",
\* it invokes the first entry of that name, whatever the length of the name.
C30_EveryCommandReachable ==
    (/\ op = "process_input"
     /\ Len(line) = 1
     /\ Named(line[1].text) # {}
     /\ line[1].text # HELP
     /\ \A k \in 1..Len(line[1].text) : line[1].text[k] # SP)
    => /\ handled = "true"
       /\ Len(invoked) = 1
       /\ invoked[1].idx = CHOOSE i \in Named(line[1].text) :
                               \A j \in Named(line[1].text) : i <= j

\* the bytes of the control sequences the client sends
ControlBytes == { CONTROL_SEQ[i] : i \in 1..Len(CONTROL_SEQ) }

\* C31: however the stream of data bytes and 3-byte control sequences is
\* split into reads, neither get_bytes nor get_byte returns a byte of a
\* control sequence as payload.
C31_FilterAcrossReads ==
    /\ wifi_op = "get_bytes" => \A i \in 1..wifi_ret : wifi_buf[i] \notin ControlBytes
    /\ wifi_op = "get_byte" => wifi_ret \notin ControlBytes

\* C32: in every state connected_ implies socket_fd_ >= 0; at most one client
\* socket is open, and it is the one socket_fd_ names; no listening socket is
\* left open by accept_client; an accept_client that got no client leaves the
\* adapter disconnected with no client socket open.
C32_ConnectionInvariant ==
    /\ connected_ => socket_fd_ >= 0
    /\ open_clients \in 0..1
    /\ open_clients = 1 <=> socket_fd_ >= 0
    /\ ~listen_open
    /\ (wifi_op = "accept_client" /\ socket_fd_ < 0) =>
          (~connected_ /\ open_clients = 0)

\* accept_client got a client while the line typed by an earlier client was
\* still in the buffer: the earlier socket was closed, one is open
C32_Witness ==
    /\ wifi_op = "accept_client"
    /\ input_pos_ > 0
    /\ connected_
    /\ socket_fd_ = CLIENT_FD
    /\ open_clients = 1

\* how many spaces l has from index i + 1 on before a character or its end
SpacesFrom(l, i) ==
    CHOOSE k \in 0..(Len(l) - i) :
        /\ \A j \in 1..k : l[i + j] = SP
        /\ i + k = Len(l) \/ l[i + k + 1] # SP

\* how many characters l has from index i + 1 on before a space or its end
WordFrom(l, i) ==
    CHOOSE k \in 0..(Len(l) - i) :
        /\ \A j \in 1..k : l[i + j] # SP
        /\ i + k = Len(l) \/ l[i + k + 1] = SP

\* the first token of a line: its first word, at most MAX_ARG_LENGTH-1
\* characters of it; empty for an empty or all-space line
FirstToken(l) ==
    SubSeq(l, SpacesFrom(l, 0) + 1,
           SpacesFrom(l, 0) + Min(WordFrom(l, SpacesFrom(l, 0)), MAX_ARG_LENGTH - 1))

C34_EchoDiscipline ==
    op = "process_input" =>
        \A i \in 1..Len(chunk) :
            Processed(i) =>
                LET p == trace[i]
                    q == trace[i + 1]
                    c == chunk[i]
                IN /\ (IsRegular(c) /\ q.pos = p.pos + 1) =>
                         /\ q.text = Append(p.text, c)
                         /\ q.nout = p.nout + 1
                         /\ out[q.nout] = Ev("put_byte", <<c>>)
                   /\ (IsRegular(c) /\ q.pos = p.pos) =>
                         (p.pos = CMD_BUFFER_SIZE - 1 /\ q.nout = p.nout)
                   /\ IsRegular(c) => q.pos \in {p.pos, p.pos + 1}
                   /\ (c \in {BS, DEL} /\ p.pos = 0) => q.nout = p.nout
                   /\ (c = LF /\ p.last = CR) => q.nout = p.nout
                   /\ (c \in {CR, LF} /\ ~(c = LF /\ p.last = CR)) =>
                         /\ q.nout = p.nout + 1
                         /\ out[q.nout] = NewLine
                         /\ \A k \in 1..Len(out) :
                               out[k].op \in {"execute", "print"} => k > q.nout

\* one read at 126 characters: the first 'b' is stored and echoed, the second
\* is dropped without output, CR writes the newline, the message of the
\* dispatch follows it
C34_Witness ==
    /\ op = "process_input"
    /\ chunk = <<98, 98, CR>>
    /\ Len(trace) = 4
    /\ trace[1].pos = CMD_BUFFER_SIZE - 2
    /\ trace[1].prompt
    /\ out[1] = Ev("put_byte", <<98>>)
    /\ out[2] = NewLine
    /\ out[3].op = "print"
    /\ handled = "false"

====
